---------------------------- MODULE Spec2Model ----------------------------
(***************************************************************************)
(* Smart waste management: the bin store and the nearby query of the demo  *)
(* server (src/demo-server.js, an in-memory array) and of the production   *)
(* router (src/backend/routes/binRoutes.js over the mongoose model of      *)
(* src/unnamed/part_001).                                                  *)
(*                                                                         *)
(* Numbers.  A JavaScript number is held in thousandths (41 degrees is     *)
(* 41000, 111.195 km is 111195), so a radius can equal a distance to the   *)
(* metre.  Angles in radians, sines, cosines and the haversine term a are  *)
(* held in units of 10^-8.  TLC's integers are 32 bits wide, so products   *)
(* of two such values are taken limb by limb (MulFx) and quotients digit   *)
(* by digit (DivFx).                                                       *)
(*                                                                         *)
(* Strings.  A JavaScript string is a sequence of one-character strings,   *)
(* so that parseFloat, Number() and toString() are modelled by what they   *)
(* do to the characters.                                                   *)
(***************************************************************************)
EXTENDS Integers, Sequences, FiniteSets, TLC

---------------------------------------------------------------------------
(* Fixed-point arithmetic *)

Unit == 10 * 10 * 10
Limb == 100 * 100
FX == Limb * Limb

Abs(x) == IF x < 0 THEN -x ELSE x
Sgn(x) == IF x < 0 THEN -1 ELSE 1

\* x / n rounded toward zero
DivT(x, n) == Sgn(x) * Sgn(n) * (Abs(x) \div Abs(n))

\* x * y / FX, rounded toward zero, without leaving 32 bits
MulFx(x, y) ==
    LET xh == Abs(x) \div Limb
        xl == Abs(x) % Limb
        yh == Abs(y) \div Limb
        yl == Abs(y) % Limb
    IN  Sgn(x) * Sgn(y) * (xh * yh + (xh * yl + xl * yh + (xl * yl) \div Limb) \div Limb)

\* q, r and n digits to go of the long division by y (r < y, 10 * r fits)
RECURSIVE DivDigits(_, _, _, _)
DivDigits(q, r, y, n) ==
    IF n = 0 THEN q
    ELSE DivDigits(q * 10 + (r * 10) \div y, (r * 10) % y, y, n - 1)

\* x * FX / y for 0 <= x, 0 < y, rounded down
DivFx(x, y) == DivDigits(x \div y, x % y, y, 8)

\* Math.PI (3.14159265...) and Math.PI / 180 in units of 10^-8
PI == 314159265
HalfPi == PI \div 2
DegRad == PI \div 180

\* x * Math.PI / 180 for x in thousandths of a degree
DegToRad(x) ==
    Sgn(x) * ((Abs(x) \div Unit) * DegRad + ((Abs(x) % Unit) * DegRad) \div Unit)

\* The Taylor series of the sine from the term t of index k on (x2 = x * x)
RECURSIVE SinSeries(_, _, _)
SinSeries(t, x2, k) ==
    IF t = 0 THEN 0
    ELSE t + SinSeries(-DivT(MulFx(t, x2), (2 * k + 2) * (2 * k + 3)), x2, k + 1)

\* Math.sin: the argument brought into [0, pi/2] by the symmetries, then the series
RECURSIVE Sin(_)
Sin(x) ==
    IF x < 0 THEN -Sin(-x)
    ELSE IF x > 2 * PI THEN Sin(x - 2 * PI)
    ELSE IF x > PI THEN -Sin(x - PI)
    ELSE IF x > HalfPi THEN Sin(PI - x)
    ELSE SinSeries(x, MulFx(x, x), 0)

\* Math.cos
Cos(x) == Sin(HalfPi - Abs(x))

\* Math.sqrt on [0, 1]: the least s in lo..hi with s * s >= a
RECURSIVE SqrtSearch(_, _, _)
SqrtSearch(lo, hi, a) ==
    IF lo >= hi THEN lo
    ELSE LET mid == (lo + hi) \div 2
         IN  IF MulFx(mid, mid) >= a THEN SqrtSearch(lo, mid, a)
             ELSE SqrtSearch(mid + 1, hi, a)

Sqrt(a) == SqrtSearch(0, FX, a)

\* The series of the arctangent from the power w^(2k+1) on (w2 = w * w)
RECURSIVE AtanSeries(_, _, _)
AtanSeries(p, w2, k) ==
    IF p = 0 THEN 0
    ELSE DivT(p, 2 * k + 1) + AtanSeries(-MulFx(p, w2), w2, k + 1)

\* atan z for 0 <= z <= 1: above tan(pi/8) by atan z = pi/4 - atan((1 - z) / (1 + z))
Atan(z) ==
    IF z > 41421356
    THEN LET w == DivFx(FX - z, FX + z)
         IN  HalfPi \div 2 - AtanSeries(w, MulFx(w, w), 0)
    ELSE AtanSeries(z, MulFx(z, z), 0)

\* Math.atan2(y, x) for y >= 0, x >= 0 (the two square roots of the haversine)
Atan2(y, x) ==
    IF y = 0 THEN 0
    ELSE IF y <= x THEN Atan(DivFx(y, x))
    ELSE HalfPi - Atan(DivFx(x, y))

\* Radius of Earth in km
R == 6371

\* The a of calculateDistance, coordinates in thousandths of a degree
Square(x) == MulFx(x, x)
haversineTerm(lat1, lon1, lat2, lon2) ==
    Square(Sin(DivT(DegToRad(lat2 - lat1), 2)))
    + MulFx(MulFx(Cos(DegToRad(lat1)), Cos(DegToRad(lat2))),
            Square(Sin(DivT(DegToRad(lon2 - lon1), 2))))

\* The body of calculateDistance: the haversine distance in thousandths of a
\* km, a JavaScript number.  Rounding can leave a above 1 for points opposite
\* each other on the globe; Math.sqrt(1 - a) is then NaN, and so are c and R * c
haversineFrom(a) ==
    IF a > FX THEN [t |-> "number", nan |-> TRUE, v |-> 0]
    ELSE [t |-> "number", nan |-> FALSE,
          v |-> MulFx(R * Unit, 2 * Atan2(Sqrt(a), Sqrt(FX - a)))]
haversine(lat1, lon1, lat2, lon2) == haversineFrom(haversineTerm(lat1, lon1, lat2, lon2))

\* The points requests name (see Requests below) and the sample bins' points
QueryPoints == {<<40713, -74006>>, <<95 * Unit, -74006>>, <<0, 179900>>}
BinPoints ==
    {<<40713, -74006>>, <<41713, -74006>>, <<40713, -73006>>, <<41713, -73006>>,
     <<40759, -73985>>, <<40751, -73993>>, <<40761, -73978>>, <<40728, -73795>>,
     <<0, 179800>>, <<0, -179900>>}

\* The distances between those points, computed once
Distances ==
    LET d == [q \in QueryPoints, b \in BinPoints |-> haversine(q[1], q[2], b[1], b[2])]
    IN  IF d = d THEN d ELSE d

\* calculateDistance
calculateDistance(lat1, lon1, lat2, lon2) ==
    IF <<lat1, lon1>> \in QueryPoints /\ <<lat2, lon2>> \in BinPoints
    THEN Distances[<<lat1, lon1>>, <<lat2, lon2>>]
    ELSE haversine(lat1, lon1, lat2, lon2)

---------------------------------------------------------------------------
(* JavaScript values: undefined, numbers (in thousandths, or NaN), strings *)

Undefined == [t |-> "undefined"]
Null == [t |-> "null"]
Num(v) == [t |-> "number", nan |-> FALSE, v |-> v]
NaN == [t |-> "number", nan |-> TRUE, v |-> 0]
Str(s) == [t |-> "string", s |-> s]

DigitChars == <<"0", "1", "2", "3", "4", "5", "6", "7", "8", "9">>
IsDigit(ch) == \E i \in DOMAIN DigitChars : DigitChars[i] = ch
DigitVal(ch) == (CHOOSE i \in DOMAIN DigitChars : DigitChars[i] = ch) - 1

\* !x
Falsy(x) ==
    \/ x.t = "undefined"
    \/ x.t = "number" /\ (x.nan \/ x.v = 0)
    \/ x.t = "string" /\ x.s = <<>>

\* isNaN of a number
isNaN(x) == x.nan

\* n.toString() of a non-negative integer n
RECURSIVE IntToString(_)
IntToString(n) ==
    IF n < 10 THEN <<DigitChars[n + 1]>>
    ELSE IntToString(n \div 10) \o <<DigitChars[(n % 10) + 1]>>

\* The digits of the fraction f / Unit, trailing zeros dropped (w: digits left)
RECURSIVE FracToString(_, _)
FracToString(f, w) ==
    IF f = 0 THEN <<>>
    ELSE <<DigitChars[(f \div w) + 1]>> \o FracToString((f % w) * 10, w)

\* String(x) of a number
NumberToString(x) ==
    IF x.nan THEN <<"N", "a", "N">>
    ELSE (IF x.v < 0 THEN <<"-">> ELSE <<>>)
         \o IntToString(Abs(x.v) \div Unit)
         \o (IF Abs(x.v) % Unit = 0 THEN <<>>
             ELSE <<".">> \o FracToString(Abs(x.v) % Unit, Unit \div 10))

\* String(x)
StringOf(x) ==
    IF x.t = "string" THEN x.s
    ELSE IF x.t = "number" THEN NumberToString(x)
    ELSE <<"u", "n", "d", "e", "f", "i", "n", "e", "d">>

RECURSIVE SkipSpaces(_)
SkipSpaces(s) == IF s # <<>> /\ Head(s) = " " THEN SkipSpaces(Tail(s)) ELSE s

\* The longest prefix of s made of digits
RECURSIVE DigitPrefix(_)
DigitPrefix(s) ==
    IF s # <<>> /\ IsDigit(Head(s)) THEN <<Head(s)>> \o DigitPrefix(Tail(s)) ELSE <<>>

\* The value of a string of digits, after the value acc of the digits before it
RECURSIVE DigitsValue(_, _)
DigitsValue(s, acc) ==
    IF s = <<>> THEN acc ELSE DigitsValue(Tail(s), acc * 10 + DigitVal(Head(s)))

\* The value in thousandths of the digits after the point (w: weight of the first)
RECURSIVE FractionValue(_, _)
FractionValue(s, w) ==
    IF s = <<>> \/ w = 0 THEN 0
    ELSE DigitVal(Head(s)) * w + FractionValue(Tail(s), w \div 10)

\* The parts of the longest numeric prefix of the string s: sign, integer digits,
\* fraction digits and what follows them
NumericPrefix(s) ==
    LET s0 == SkipSpaces(s)
        signed == s0 # <<>> /\ Head(s0) \in {"-", "+"}
        s1 == IF signed THEN Tail(s0) ELSE s0
        ip == DigitPrefix(s1)
        r1 == SubSeq(s1, Len(ip) + 1, Len(s1))
        point == r1 # <<>> /\ Head(r1) = "."
        fp == IF point THEN DigitPrefix(Tail(r1)) ELSE <<>>
        used == ip # <<>> \/ fp # <<>>
    IN  [neg |-> signed /\ Head(s0) = "-", ip |-> ip, fp |-> fp, used |-> used,
         rest |-> IF point /\ used THEN SubSeq(r1, Len(fp) + 2, Len(r1)) ELSE r1]

PrefixValue(p) ==
    Num((IF p.neg THEN -1 ELSE 1)
        * (DigitsValue(p.ip, 0) * Unit + FractionValue(p.fp, Unit \div 10)))

\* parseFloat(x): the number the longest numeric prefix of String(x) denotes
parseFloat(x) ==
    LET p == NumericPrefix(StringOf(x))
    IN  IF p.used THEN PrefixValue(p) ELSE NaN

\* Number(x), the conversion of a relational comparison with a number: the
\* whole string must be a numeral, and the empty string is 0
ToNumber(x) ==
    IF x.t = "number" THEN x
    ELSE IF x.t = "undefined" THEN NaN
    ELSE LET p == NumericPrefix(x.s)
         IN  IF SkipSpaces(x.s) = <<>> THEN Num(0)
             ELSE IF p.used /\ SkipSpaces(p.rest) = <<>> THEN PrefixValue(p)
             ELSE NaN

\* x < y, x > y, x <= y of a value and a number: false when either is NaN
NumberLess(a, b) == ~a.nan /\ ~b.nan /\ a.v < b.v
NumberLessOrEqual(a, b) == ~a.nan /\ ~b.nan /\ a.v <= b.v
JsLess(x, y) == NumberLess(ToNumber(x), ToNumber(y))
JsGreater(x, y) == JsLess(y, x)
JsLessOrEqual(x, y) == NumberLessOrEqual(ToNumber(x), ToNumber(y))

---------------------------------------------------------------------------
(* The bin store and the request handlers *)

VARIABLES
    server,     \* "demo": demo-server.js, "router": server.js with binRoutes.js
    bins,       \* the bins array of the demo server / the bins collection
    nextId,     \* the demo server's nextId / the count of ObjectIds generated
    now,        \* the clock read by new Date() and Date.now()
    writes,     \* the number of requests that changed the store so far
    issued,     \* every _id given to a bin so far (history)
    last,       \* the request being answered and its response, or Idle
    pending,    \* per client: its nearby request in flight and how far it got
    nodeEnv,    \* process.env.NODE_ENV once server.js has set its default
    mobile,     \* the page's call of mobileFetch: where it is and what happened
    mobileErrors,   \* the list under 'mobile_errors' in the browser's localStorage
    everLogged, \* every entry logMobileError ever made, those stored at the start too (history)
    clock,      \* the browser's clock
    test,       \* the run of deploy-railway.js's test script: its position and variables
    measured,   \* the last call of the page's calculateDistance and what it returned
    location,   \* the page's call of getMobileLocation: its timer, flag and promise
    page        \* the page of frontend/script.js: its variables, map, alerts, requests

vars ==
    <<server, bins, nextId, now, writes, issued, last, pending, nodeEnv, mobile,
      mobileErrors, everLogged, clock, test, measured, location, page>>

\* The variables of the servers and those of the page in the browser
serverVars == <<server, bins, nextId, now, writes, issued, last, pending, nodeEnv>>
pageVars == <<mobile, mobileErrors, everLogged, clock, measured, location, page>>

\* The number of store-changing requests a behaviour may hold
MaxWrites == 2

Empty == <<"E", "m", "p", "t", "y">>
HalfFull == <<"H", "a", "l", "f", "-", "F", "u", "l", "l">>
Full == <<"F", "u", "l", "l">>

\* ['Empty', 'Half-Full', 'Full']
validStatuses == <<Empty, HalfFull, Full>>

\* array.includes(x): strict equality with one of the strings
Includes(array, x) == x.t = "string" /\ \E i \in DOMAIN array : array[i] = x.s

validateStatus(status) == Includes(validStatuses, status)

\* validateCoordinates with the two ranges exchanged
validateCoordinatesSwapped(lat, lng) ==
    /\ ~lat.nan /\ ~lng.nan
    /\ lat.v >= -180 * Unit /\ lat.v <= 180 * Unit
    /\ lng.v >= -90 * Unit /\ lng.v <= 90 * Unit

validateCoordinates(lat, lng) ==
    /\ ~lat.nan /\ ~lng.nan
    /\ lat.v >= -90 * Unit /\ lat.v <= 90 * Unit
    /\ lng.v >= -180 * Unit /\ lng.v <= 180 * Unit

Bin(id, lat, lng, status, addedAt, updatedAt) ==
    [_id |-> id, latitude |-> lat, longitude |-> lng, status |-> status,
     addedAt |-> addedAt, updatedAt |-> updatedAt]

\* The five sample bins of the demo server, coordinates to three decimals;
\* their times 08:30 < 09:15 < 10:00 < 11:30 < 12:45 are 1 .. 5
SampleBins ==
    << Bin(<<"1">>, Num(40713), Num(-74006), Str(Empty), 1, 1),
       Bin(<<"2">>, Num(40759), Num(-73985), Str(HalfFull), 2, 2),
       Bin(<<"3">>, Num(40751), Num(-73993), Str(Full), 3, 3),
       Bin(<<"4">>, Num(40761), Num(-73978), Str(Empty), 4, 4),
       Bin(<<"5">>, Num(40728), Num(-73795), Str(HalfFull), 5, 5) >>

\* A 12-byte ObjectId in hexadecimal, the n-th one generated (n < 10)
ObjectId(n) == [i \in 1..(2 * 12) |-> IF i = 2 * 12 THEN DigitChars[n + 1] ELSE "0"]

HexChars == {DigitChars[i] : i \in DOMAIN DigitChars} \cup {"a", "b", "c", "d", "e", "f"}

\* Whether mongoose casts the string to an ObjectId (otherwise: CastError)
IsObjectId(id) == Len(id) = 2 * 12 /\ \A i \in DOMAIN id : id[i] \in HexChars

\* The index of the first bin with this _id, or 0 (findIndex's -1)
findIndex(bs, id) ==
    IF \E i \in DOMAIN bs : bs[i]._id = id
    THEN CHOOSE i \in DOMAIN bs : bs[i]._id = id /\ \A j \in 1..(i - 1) : bs[j]._id # id
    ELSE 0

\* array.splice(i): the count left out, everything from the i-th element on goes
SpliceToEnd(bs, i) == SubSeq(bs, 1, i - 1)

\* array.splice(i, 1): the array without its i-th element
Splice(bs, i) == SubSeq(bs, 1, i - 1) \o SubSeq(bs, i + 1, Len(bs))

\* What a handler does: the store after it and the response.  Every response
\* of the two servers has success: true with a status 200 or 201 and success:
\* false with any other; a response has no count unless the handler gives one
Outcome(bs, nid, code, error, data) ==
    [bins |-> bs, nextId |-> nid, code |-> code, success |-> code \in {200, 201},
     error |-> error, data |-> data, count |-> Undefined]

\* The response of o with count: count
Counted(o, count) == [o EXCEPT !.count = count]

---------------------------------------------------------------------------
(* The demo server *)

\* app.get('/api/bins')
demoGetBins(bs, nid) == Counted(Outcome(bs, nid, 200, "", bs), Len(bs))

\* app.post('/api/bins') with the _id taken from the length of the array
demoPostBinByLength(bs, nid, body, t) ==
    LET lat == parseFloat(body.latitude)
        lng == parseFloat(body.longitude)
        newBin == Bin(IntToString(Len(bs) + 1), lat, lng, body.status, t, t)
    IN  IF Falsy(body.latitude) \/ Falsy(body.longitude) \/ Falsy(body.status)
        THEN Outcome(bs, nid, 400, "Please provide latitude, longitude, and status", <<>>)
        ELSE IF isNaN(lat) \/ isNaN(lng) \/ ~validateCoordinates(lat, lng)
        THEN Outcome(bs, nid, 400,
                     "Invalid coordinates. Latitude must be -90 to 90, longitude -180 to 180", <<>>)
        ELSE IF ~validateStatus(body.status)
        THEN Outcome(bs, nid, 400, "Status must be either Empty, Half-Full, or Full", <<>>)
        ELSE Outcome(Append(bs, newBin), nid + 1, 201, "", <<newBin>>)

\* app.post('/api/bins') at time t
demoPostBin(bs, nid, body, t) ==
    LET lat == parseFloat(body.latitude)
        lng == parseFloat(body.longitude)
        newBin == Bin(IntToString(nid), lat, lng, body.status, t, t)
    IN  IF Falsy(body.latitude) \/ Falsy(body.longitude) \/ Falsy(body.status)
        THEN Outcome(bs, nid, 400, "Please provide latitude, longitude, and status", <<>>)
        ELSE IF isNaN(lat) \/ isNaN(lng) \/ ~validateCoordinates(lat, lng)
        THEN Outcome(bs, nid, 400,
                     "Invalid coordinates. Latitude must be -90 to 90, longitude -180 to 180", <<>>)
        ELSE IF ~validateStatus(body.status)
        THEN Outcome(bs, nid, 400, "Status must be either Empty, Half-Full, or Full", <<>>)
        ELSE Outcome(Append(bs, newBin), nid + 1, 201, "", <<newBin>>)

\* app.put('/api/bins/:id') writing the time to addedAt as well
demoPutBinTouchingAddedAt(bs, nid, id, body, t) ==
    LET binIndex == findIndex(bs, id)
        updated == [bs EXCEPT ![binIndex].status = body.status, ![binIndex].updatedAt = t,
                              ![binIndex].addedAt = t]
    IN  IF binIndex = 0
        THEN Outcome(bs, nid, 404, "Bin not found", <<>>)
        ELSE IF ~validateStatus(body.status)
        THEN Outcome(bs, nid, 400, "Status must be either Empty, Half-Full, or Full", <<>>)
        ELSE Outcome(updated, nid, 200, "", <<updated[binIndex]>>)

\* app.put('/api/bins/:id') at time t
demoPutBin(bs, nid, id, body, t) ==
    LET binIndex == findIndex(bs, id)
        updated == [bs EXCEPT ![binIndex].status = body.status, ![binIndex].updatedAt = t]
    IN  IF binIndex = 0
        THEN Outcome(bs, nid, 404, "Bin not found", <<>>)
        ELSE IF ~validateStatus(body.status)
        THEN Outcome(bs, nid, 400, "Status must be either Empty, Half-Full, or Full", <<>>)
        ELSE Outcome(updated, nid, 200, "", <<updated[binIndex]>>)

\* app.delete('/api/bins/:id')
demoDeleteBin(bs, nid, id) ==
    LET binIndex == findIndex(bs, id)
    IN  IF binIndex = 0
        THEN Outcome(bs, nid, 404, "Bin not found", <<>>)
        ELSE Outcome(Splice(bs, binIndex), nid, 200, "", <<bs[binIndex]>>)

\* The filter with distance < radiusInKm
demoWithinStrict(latitude, longitude, radiusInKm, bin) ==
    NumberLess(calculateDistance(latitude.v, longitude.v, bin.latitude.v, bin.longitude.v),
               radiusInKm)

\* The filter of the demo server's nearby route: distance <= radiusInKm
demoWithin(latitude, longitude, radiusInKm, bin) ==
    NumberLessOrEqual(calculateDistance(latitude.v, longitude.v,
                                        bin.latitude.v, bin.longitude.v),
                      radiusInKm)

\* parseFloat(radius) || 5: the default also for a radius of 0
RadiusOrFive(query) ==
    IF query.radius.t = "undefined" \/ Falsy(parseFloat(query.radius))
    THEN Num(5 * Unit) ELSE query.radius

\* const { lat, lng, radius = 50 } = req.query
RadiusOrFifty(query) == IF query.radius.t = "undefined" THEN Num(50 * Unit) ELSE query.radius

\* const { lat, lng, radius = 5 } = req.query
RadiusOrDefault(query) == IF query.radius.t = "undefined" THEN Num(5 * Unit) ELSE query.radius

\* app.get('/api/bins/nearby') assigning the filtered array to bins
demoGetNearbyKeepingFound(bs, nid, query) ==
    LET latitude == parseFloat(query.lat)
        longitude == parseFloat(query.lng)
        radiusInKm == parseFloat(RadiusOrDefault(query))
        found == SelectSeq(bs, LAMBDA bin : demoWithin(latitude, longitude, radiusInKm, bin))
    IN  IF Falsy(query.lat) \/ Falsy(query.lng)
        THEN Outcome(bs, nid, 400,
                     "Please provide latitude (lat) and longitude (lng) query parameters", <<>>)
        ELSE IF isNaN(latitude) \/ isNaN(longitude) \/ isNaN(radiusInKm)
        THEN Outcome(bs, nid, 400, "Invalid coordinates or radius", <<>>)
        ELSE Counted(Outcome(found, nid, 200, "", found), Len(found))

\* app.get('/api/bins/nearby') with count: bins.length
demoGetNearbyCountingAll(bs, nid, query) ==
    LET latitude == parseFloat(query.lat)
        longitude == parseFloat(query.lng)
        radiusInKm == parseFloat(RadiusOrDefault(query))
        nearbyBins == SelectSeq(bs, LAMBDA bin : demoWithin(latitude, longitude, radiusInKm, bin))
    IN  IF Falsy(query.lat) \/ Falsy(query.lng)
        THEN Outcome(bs, nid, 400,
                     "Please provide latitude (lat) and longitude (lng) query parameters", <<>>)
        ELSE IF isNaN(latitude) \/ isNaN(longitude) \/ isNaN(radiusInKm)
        THEN Outcome(bs, nid, 400, "Invalid coordinates or radius", <<>>)
        ELSE Counted(Outcome(bs, nid, 200, "", nearbyBins), Len(bs))

\* app.get('/api/bins/nearby')
demoGetNearby(bs, nid, query) ==
    LET latitude == parseFloat(query.lat)
        longitude == parseFloat(query.lng)
        radiusInKm == parseFloat(RadiusOrDefault(query))
        nearbyBins == SelectSeq(bs, LAMBDA bin : demoWithin(latitude, longitude, radiusInKm, bin))
    IN  IF Falsy(query.lat) \/ Falsy(query.lng)
        THEN Outcome(bs, nid, 400,
                     "Please provide latitude (lat) and longitude (lng) query parameters", <<>>)
        ELSE IF isNaN(latitude) \/ isNaN(longitude) \/ isNaN(radiusInKm)
        THEN Outcome(bs, nid, 400, "Invalid coordinates or radius", <<>>)
        ELSE Counted(Outcome(bs, nid, 200, "", nearbyBins), Len(nearbyBins))

---------------------------------------------------------------------------
(* The production router over the mongoose model Bin *)

\* binSchema: whether a document with these values passes validation.  A
\* Number path does not take NaN (cast error); min, max and enum as declared
binSchemaValid(lat, lng, status) ==
    /\ lat.t = "number" /\ ~lat.nan /\ lat.v >= -90 * Unit /\ lat.v <= 90 * Unit
    /\ lng.t = "number" /\ ~lng.nan /\ lng.v >= -180 * Unit /\ lng.v <= 180 * Unit
    /\ Includes(validStatuses, status)

\* The orders of the indices of bs
Orders(bs) ==
    {f \in [DOMAIN bs -> DOMAIN bs] : \A i, j \in DOMAIN bs : f[i] = f[j] => i = j}

\* .sort({ addedAt: -1 }): the documents by addedAt descending.  MongoDB returns
\* documents with equal sort keys in any order: every such order is a result
sortAddedAtDesc(bs) ==
    {[i \in DOMAIN bs |-> bs[f[i]]] : f \in
        {g \in Orders(bs) : \A i, j \in DOMAIN bs :
            i < j => bs[g[i]].addedAt >= bs[g[j]].addedAt}}

\* router.get('/'): the responses it may give
routerGetBins(bs, nid) ==
    {Counted(Outcome(bs, nid, 200, "", data), Len(data)) : data \in sortAddedAtDesc(bs)}

\* router.post('/') at time t
routerPostBin(bs, nid, body, t) ==
    LET lat == parseFloat(body.latitude)
        lng == parseFloat(body.longitude)
        savedBin == Bin(ObjectId(nid), lat, lng, body.status, t, t)
    IN  IF Falsy(body.latitude) \/ Falsy(body.longitude) \/ Falsy(body.status)
        THEN Outcome(bs, nid, 400, "Please provide latitude, longitude, and status", <<>>)
        ELSE IF JsLess(body.latitude, Num(-90 * Unit)) \/ JsGreater(body.latitude, Num(90 * Unit))
        THEN Outcome(bs, nid, 400, "Latitude must be between -90 and 90", <<>>)
        ELSE IF JsLess(body.longitude, Num(-180 * Unit))
                \/ JsGreater(body.longitude, Num(180 * Unit))
        THEN Outcome(bs, nid, 400, "Longitude must be between -180 and 180", <<>>)
        ELSE IF ~Includes(validStatuses, body.status)
        THEN Outcome(bs, nid, 400, "Status must be either Empty, Half-Full, or Full", <<>>)
        ELSE IF ~binSchemaValid(lat, lng, body.status)
        THEN Outcome(bs, nid, 400, "ValidationError", <<>>)
        ELSE Outcome(Append(bs, savedBin), nid + 1, 201, "", <<savedBin>>)

\* router.put('/:id') at time t
routerPutBin(bs, nid, id, body, t) ==
    LET i == findIndex(bs, id)
        updated == [bs EXCEPT ![i].status = body.status, ![i].updatedAt = t]
    IN  IF ~Includes(validStatuses, body.status)
        THEN Outcome(bs, nid, 400, "Status must be either Empty, Half-Full, or Full", <<>>)
        ELSE IF ~IsObjectId(id)
        THEN Outcome(bs, nid, 400, "Invalid bin ID", <<>>)
        ELSE IF i = 0
        THEN Outcome(bs, nid, 404, "Bin not found", <<>>)
        ELSE Outcome(updated, nid, 200, "", <<updated[i]>>)

\* router.delete('/:id')
routerDeleteBin(bs, nid, id) ==
    LET i == findIndex(bs, id)
    IN  IF ~IsObjectId(id)
        THEN Outcome(bs, nid, 400, "Invalid bin ID", <<>>)
        ELSE IF i = 0
        THEN Outcome(bs, nid, 404, "Bin not found", <<>>)
        ELSE Outcome(Splice(bs, i), nid, 200, "", <<bs[i]>>)

\* A quotient too large for any longitude
Huge == 10 * FX

\* x / y for x in thousandths and y in units of 10^-8, in thousandths
Quot(x, y) ==
    IF y = 0 \/ Abs(x) \div Abs(IF y = 0 THEN 1 ELSE y) >= 10 THEN Sgn(x) * Sgn(y) * Huge
    ELSE Sgn(x) * Sgn(y) * DivFx(Abs(x), Abs(y))

\* radiusInKm / 111
latDeltaOf(radiusInKm) == DivT(radiusInKm.v, 111)

\* radiusInKm / (111 * Math.cos(latitude * Math.PI / 180))
lngDeltaOf(radiusInKm, latitude) ==
    Quot(DivT(radiusInKm.v, 111), Cos(DegToRad(latitude.v)))

\* The filter of the router's nearby route: the bounding box
routerWithin(latitude, longitude, radiusInKm, bin) ==
    LET latDelta == latDeltaOf(radiusInKm)
        lngDelta == lngDeltaOf(radiusInKm, latitude)
    IN  /\ bin.latitude.v >= latitude.v - latDelta
        /\ bin.latitude.v <= latitude.v + latDelta
        /\ bin.longitude.v >= longitude.v - lngDelta
        /\ bin.longitude.v <= longitude.v + lngDelta

\* router.get('/nearby'): the responses it may give.  With a NaN in the filter
\* the query matches nothing or is refused with a cast error (a 500)
routerGetNearby(bs, nid, query) ==
    LET latitude == parseFloat(query.lat)
        longitude == parseFloat(query.lng)
        radiusInKm == parseFloat(RadiusOrDefault(query))
        found == SelectSeq(bs, LAMBDA bin : routerWithin(latitude, longitude, radiusInKm, bin))
    IN  IF Falsy(query.lat) \/ Falsy(query.lng)
        THEN {Outcome(bs, nid, 400,
                      "Please provide latitude (lat) and longitude (lng) query parameters", <<>>)}
        ELSE IF isNaN(latitude) \/ isNaN(longitude) \/ isNaN(radiusInKm)
        THEN {Counted(Outcome(bs, nid, 200, "", <<>>), 0),
              Outcome(bs, nid, 500, "Server Error - Unable to fetch nearby bins", <<>>)}
        ELSE {Counted(Outcome(bs, nid, 200, "", data), Len(data)) :
                data \in sortAddedAtDesc(found)}

---------------------------------------------------------------------------
(* Requests *)

\* Values of a create request.  The good ones: the position 40.713, -74.006 of
\* the first sample bin, and one degree north and one degree east of it.  The
\* odd ones: missing, zero, out of range, numerals followed by a letter
GoodLat == {Num(40713), Num(41713)}
OddLat == {Undefined, Num(0), Num(91 * Unit), Str(<<"9", "5", "x">>),
           Str(<<"4", "0", ".", "7", "1", "3", "x">>)}
GoodLng == {Num(-74006), Num(-73006)}
OddLng == {Num(181 * Unit)}
GoodStatus == {Str(Empty), Str(Full)}
OddStatus == {Undefined, Str(<<"X">>)}

\* The bodies of create requests: at most one field holds an odd value
PostBodies ==
    {[latitude |-> la, longitude |-> lo, status |-> st] :
        la \in GoodLat \cup OddLat, lo \in GoodLng, st \in GoodStatus}
    \cup {[latitude |-> la, longitude |-> lo, status |-> st] :
        la \in GoodLat, lo \in OddLng, st \in GoodStatus}
    \cup {[latitude |-> la, longitude |-> lo, status |-> st] :
        la \in GoodLat, lo \in GoodLng, st \in OddStatus}

PutBodies == {[status |-> st] : st \in GoodStatus \cup OddStatus}

\* Ids named by requests to the demo server: of the first and the last sample
\* bin, of the first bin created, one no bin ever has, and the id of
\* deploy-railway.js's error test
InvalidId == <<"i", "n", "v", "a", "l", "i", "d", "-", "i", "d">>
DemoIds == {<<"1">>, <<"5">>, <<"6">>, <<"9">>, InvalidId}

\* Ids named by requests to the router: of the first two bins created, one no
\* bin ever has, and the id of the error test
RouterIds == {ObjectId(1), ObjectId(2), ObjectId(9), InvalidId}

\* The distance from the first sample bin to the point one degree north of it
NorthRadius == NumberToString(calculateDistance(40713, -74006, 41713, -74006))

\* The distance from the first sample bin to the fifth, the farthest one
SampleRadius == NumberToString(calculateDistance(40713, -74006, 40728, -73795))

NearbyQueries ==
    {[lat |-> la, lng |-> lo, radius |-> ra] :
        la \in {Undefined, Str(<<"4", "0", ".", "7", "1", "3">>), Str(<<"9", "5">>)},
        lo \in {Undefined, Str(<<"-", "7", "4", ".", "0", "0", "6">>)},
        ra \in {Undefined, Str(NorthRadius), Str(SampleRadius), Str(<<"-", "1">>),
                Str(<<"k", "m">>)}}

Idle == [op |-> "idle"]

\* The handler's outcome o for the request req takes effect at time t
Serve(op, req, o, t) ==
    LET write == op \in {"POST", "PUT", "DELETE"} /\ o.code \in {200, 201}
    IN  /\ IF write THEN writes < MaxWrites ELSE t = now
        /\ bins' = o.bins
        /\ nextId' = o.nextId
        /\ now' = t
        /\ writes' = IF write THEN writes + 1 ELSE writes
        /\ issued' = IF op = "POST" /\ o.code = 201
                     THEN issued \cup {o.data[1]._id} ELSE issued
        /\ last' = [op |-> op, req |-> req, code |-> o.code, success |-> o.success,
                    error |-> o.error, data |-> o.data, count |-> o.count, at |-> t]
        /\ UNCHANGED <<pageVars, test, nodeEnv, server, pending>>

Times == {now, now + 1}

DemoGetBins ==
    /\ server = "demo"
    /\ last.op = "idle"
    /\ Serve("GET", [path |-> "/"], demoGetBins(bins, nextId), now)

DemoPostBin ==
    /\ server = "demo"
    /\ last.op = "idle"
    /\ \E body \in PostBodies, t \in Times :
        Serve("POST", body, demoPostBin(bins, nextId, body, t), t)

DemoPutBin ==
    /\ server = "demo"
    /\ last.op = "idle"
    /\ \E id \in DemoIds, body \in PutBodies, t \in Times :
        Serve("PUT", [id |-> id, status |-> body.status],
              demoPutBin(bins, nextId, id, body, t), t)

DemoDeleteBin ==
    /\ server = "demo"
    /\ last.op = "idle"
    /\ \E id \in DemoIds, t \in Times :
        Serve("DELETE", [id |-> id], demoDeleteBin(bins, nextId, id), t)

DemoGetNearby ==
    /\ server = "demo"
    /\ last.op = "idle"
    /\ \E query \in NearbyQueries :
        Serve("NEARBY", query, demoGetNearby(bins, nextId, query), now)

RouterGetBins ==
    /\ server = "router"
    /\ last.op = "idle"
    /\ \E o \in routerGetBins(bins, nextId) : Serve("GET", [path |-> "/"], o, now)

RouterPostBin ==
    /\ server = "router"
    /\ last.op = "idle"
    /\ \E body \in PostBodies, t \in Times :
        Serve("POST", body, routerPostBin(bins, nextId, body, t), t)

RouterPutBin ==
    /\ server = "router"
    /\ last.op = "idle"
    /\ \E id \in RouterIds, body \in PutBodies, t \in Times :
        Serve("PUT", [id |-> id, status |-> body.status],
              routerPutBin(bins, nextId, id, body, t), t)

RouterDeleteBin ==
    /\ server = "router"
    /\ last.op = "idle"
    /\ \E id \in RouterIds, t \in Times :
        Serve("DELETE", [id |-> id], routerDeleteBin(bins, nextId, id), t)

RouterGetNearby ==
    /\ server = "router"
    /\ last.op = "idle"
    /\ \E query \in NearbyQueries :
        \E o \in routerGetNearby(bins, nextId, query) : Serve("NEARBY", query, o, now)

\* The response is sent; the server waits for the next request
Respond ==
    /\ last.op # "idle"
    /\ last' = Idle
    /\ UNCHANGED <<pageVars, test, nodeEnv, server, bins, nextId, now, writes, issued, pending>>

\* No call of mobileFetch has been made
NoCall == [pc |-> "idle"]

\* The test script is not run
NoTest == [pc |-> "idle"]

\* calculateDistance has not been called, getMobileLocation neither, and no
\* page of the site is open
NotMeasured == [called |-> FALSE]
NoLocation == [pc |-> "idle"]
NoPage == [view |-> "none"]

\* The time on the browser's clock when the page is loaded
SessionStart == 20

\* The page is loaded in a browser that has stored no errors
PageInit ==
    /\ mobile = NoCall
    /\ mobileErrors = <<>>
    /\ everLogged = <<>>
    /\ clock = SessionStart
    /\ measured = NotMeasured
    /\ location = NoLocation
    /\ page = NoPage

\* The clients that may have a nearby request in flight at the same time
Clients == {"c1", "c2"}
NoRequest == [phase |-> "none"]

Init ==
    /\ server \in {"demo", "router"}
    /\ bins = IF server = "demo" THEN SampleBins ELSE <<>>
    /\ nextId = IF server = "demo" THEN 6 ELSE 1
    /\ now = 6
    /\ writes = 0
    /\ issued = {bins[i]._id : i \in DOMAIN bins}
    /\ last = Idle
    /\ pending = [c \in Clients |-> NoRequest]
    /\ nodeEnv = "development"
    /\ PageInit
    /\ test = NoTest

Next ==
    \/ DemoGetBins
    \/ DemoPostBin
    \/ DemoPutBin
    \/ DemoDeleteBin
    \/ DemoGetNearby
    \/ RouterGetBins
    \/ RouterPostBin
    \/ RouterPutBin
    \/ RouterDeleteBin
    \/ RouterGetNearby
    \/ Respond

Spec == Init /\ [][Next]_vars

---------------------------------------------------------------------------
(* Nearby requests in flight while other requests change the store.  A handler
   runs to completion between two awaits: the demo server's nearby handler is
   one step; the router's is the step up to the awaited Bin.find, whose query
   the database answers in one read, and the step that sends the response *)

\* lat, lng at the first sample bin; no radius, or the distance to the fifth
ConcQueries ==
    {[lat |-> Str(<<"4", "0", ".", "7", "1", "3">>),
      lng |-> Str(<<"-", "7", "4", ".", "0", "0", "6">>),
      radius |-> ra] : ra \in {Undefined, Str(SampleRadius)}}

\* A create request that is accepted, for a bin at the query point
ConcBodies == {[latitude |-> Num(40713), longitude |-> Num(-74006), status |-> Str(Full)]}

\* The ids update and delete requests name: of the first bin, of a bin created
ConcIds == IF server = "demo" THEN {<<"1">>, <<"6">>} ELSE {ObjectId(1), ObjectId(2)}

\* The filter running over the first bin as stored when the request arrived
\* and the others as stored now
ReadStoreTorn(c) ==
    IF pending[c].arrived # <<>> /\ bins # <<>>
    THEN <<pending[c].arrived[1]>> \o Tail(bins)
    ELSE bins

\* The bins the filter of c's request runs over: those stored when it runs
ReadStore(c) == bins

\* A client sends a nearby request
NearbyArrives ==
    \E c \in Clients, q \in ConcQueries :
        /\ pending[c].phase = "none"
        /\ pending' = [pending EXCEPT ![c] =
                [phase |-> "received", query |-> q, arrived |-> bins, during |-> {bins},
                 code |-> 0, data |-> <<>>]]
        /\ UNCHANGED <<pageVars, test, nodeEnv, server, bins, nextId, now, writes, issued, last>>

\* The demo server's handler runs for a request received
DemoNearbyHandled ==
    \E c \in Clients :
        /\ server = "demo"
        /\ pending[c].phase = "received"
        /\ LET o == demoGetNearby(ReadStore(c), nextId, pending[c].query)
           IN  pending' = [pending EXCEPT ![c].phase = "answered",
                                          ![c].code = o.code, ![c].data = o.data]
        /\ UNCHANGED <<pageVars, test, nodeEnv, server, bins, nextId, now, writes, issued, last>>

\* The router's handler has run up to its await and the database answers the query
RouterNearbyFound ==
    \E c \in Clients :
        /\ server = "router"
        /\ pending[c].phase = "received"
        /\ \E o \in routerGetNearby(ReadStore(c), nextId, pending[c].query) :
                pending' = [pending EXCEPT ![c].phase = "found",
                                           ![c].code = o.code, ![c].data = o.data]
        /\ UNCHANGED <<pageVars, test, nodeEnv, server, bins, nextId, now, writes, issued, last>>

\* The router's handler resumes after the await and sends what was found
RouterNearbySent ==
    \E c \in Clients :
        /\ server = "router"
        /\ pending[c].phase = "found"
        /\ pending' = [pending EXCEPT ![c].phase = "answered"]
        /\ UNCHANGED <<pageVars, test, nodeEnv, server, bins, nextId, now, writes, issued, last>>

\* The client has its response
NearbyDelivered ==
    \E c \in Clients :
        /\ pending[c].phase = "answered"
        /\ pending' = [pending EXCEPT ![c] = NoRequest]
        /\ UNCHANGED <<pageVars, test, nodeEnv, server, bins, nextId, now, writes, issued, last>>

\* A create, update or delete request with outcome o changes the store while
\* nearby requests are in flight; each of them has the new store in its time
Meanwhile(o, t) ==
    /\ o.code \in {200, 201}
    /\ writes < MaxWrites
    /\ bins' = o.bins
    /\ nextId' = o.nextId
    /\ now' = t
    /\ writes' = writes + 1
    /\ issued' = issued \cup {o.bins[i]._id : i \in DOMAIN o.bins}
    /\ pending' = [c \in Clients |->
            IF pending[c].phase = "none" THEN pending[c]
            ELSE [pending[c] EXCEPT !.during = @ \cup {o.bins}]]
    /\ UNCHANGED <<pageVars, test, nodeEnv, server, last>>

PostMeanwhile ==
    \E body \in ConcBodies, t \in Times :
        Meanwhile(IF server = "demo" THEN demoPostBin(bins, nextId, body, t)
                  ELSE routerPostBin(bins, nextId, body, t), t)

PutMeanwhile ==
    \E id \in ConcIds, body \in {[status |-> Str(Full)]} :
        Meanwhile(IF server = "demo" THEN demoPutBin(bins, nextId, id, body, now + 1)
                  ELSE routerPutBin(bins, nextId, id, body, now + 1), now + 1)

DeleteMeanwhile ==
    \E id \in ConcIds :
        Meanwhile(IF server = "demo" THEN demoDeleteBin(bins, nextId, id)
                  ELSE routerDeleteBin(bins, nextId, id), now + 1)

ConcNext ==
    \/ NearbyArrives
    \/ DemoNearbyHandled
    \/ RouterNearbyFound
    \/ RouterNearbySent
    \/ NearbyDelivered
    \/ PostMeanwhile
    \/ PutMeanwhile
    \/ DeleteMeanwhile

ConcSpec == Init /\ [][ConcNext]_vars

---------------------------------------------------------------------------
(* The nearby routes over stores and queries at the edges: bins at the same
   point, a radius of 0, no radius, a query point next to the antimeridian.
   The distances of the model resolve about a kilometre, so bins that are not
   at the same point are kilometres apart *)

\* The most bins a store of EdgeSpec holds
MaxEdgeBins == 3

\* The first sample bin's point, the third's (4 km from it), the fifth's (18 km),
\* and two points on the equator, 0.2 degrees west and east of longitude 180
EdgePoints ==
    {<<40713, -74006>>, <<40751, -73993>>, <<40728, -73795>>,
     <<0, 179800>>, <<0, -179900>>}

\* The stores of up to MaxEdgeBins valid bins at those points, as srv holds them
EdgeStores(srv) ==
    UNION {{[i \in 1..n |->
                Bin(IF srv = "demo" THEN IntToString(i) ELSE ObjectId(i),
                    Num(f[i][1]), Num(f[i][2]), Str(Empty), i, i)] :
            f \in [1..n -> EdgePoints]} : n \in 0..MaxEdgeBins}

EdgeQueries ==
    {[lat |-> Str(<<"4", "0", ".", "7", "1", "3">>),
      lng |-> Str(<<"-", "7", "4", ".", "0", "0", "6">>),
      radius |-> ra] : ra \in {Undefined, Str(<<"5">>), Str(<<"0">>)}}
    \cup {[lat |-> Str(<<"0">>), lng |-> Str(<<"1", "7", "9", ".", "9">>),
           radius |-> Str(<<"5", "0">>)]}

EdgeInit ==
    /\ server \in {"demo", "router"}
    /\ bins \in EdgeStores(server)
    /\ nextId = Len(bins) + 1
    /\ now = Len(bins) + 1
    /\ writes = 0
    /\ issued = {bins[i]._id : i \in DOMAIN bins}
    /\ last = Idle
    /\ pending = [c \in Clients |-> NoRequest]
    /\ nodeEnv = "development"
    /\ PageInit
    /\ test = NoTest

EdgeDemoGetNearby ==
    /\ server = "demo"
    /\ last.op = "idle"
    /\ \E query \in EdgeQueries :
        Serve("NEARBY", query, demoGetNearby(bins, nextId, query), now)

EdgeRouterGetNearby ==
    /\ server = "router"
    /\ last.op = "idle"
    /\ \E query \in EdgeQueries :
        \E o \in routerGetNearby(bins, nextId, query) : Serve("NEARBY", query, o, now)

EdgeNext ==
    \/ EdgeDemoGetNearby
    \/ EdgeRouterGetNearby
    \/ Respond

EdgeSpec == EdgeInit /\ [][EdgeNext]_vars

---------------------------------------------------------------------------
(* server.js: the environment, the routes of binRoutes.js, the 404 handler and
   the global error handler *)

\* What NODE_ENV may hold when the process starts; "" is unset
EnvValues == {"", "production", "development", "test"}

\* process.env.NODE_ENV || "development"
EnvOrDefault(e) == IF e = "" THEN "development" ELSE e

\* Errors that reach the global error handler: body-parser's for a malformed
\* JSON body (status 400) and for a body too large (413), and errors thrown
\* with no status, with and without a message
Errors ==
    {[status |-> 400, message |-> "Unexpected token } in JSON at position 10",
      stack |-> "SyntaxError: Unexpected token } in JSON at position 10 at JSON.parse"],
     [status |-> 413, message |-> "request entity too large",
      stack |-> "PayloadTooLargeError: request entity too large at readStream"],
     [status |-> 0, message |-> "Cannot read properties of undefined",
      stack |-> "TypeError: Cannot read properties of undefined at Layer.handle"],
     [status |-> 0, message |-> "", stack |-> "Error at Layer.handle"]}

\* The stack sent whatever the environment
StackShownAlways == TRUE

\* process.env.NODE_ENV === "development"
StackShown == nodeEnv = "development"

\* The body the global error handler sends for err
ErrorBody(err) ==
    LET body == [success |-> FALSE,
                 error |-> IF err.message = "" THEN "Something went wrong!" ELSE err.message]
    IN  IF StackShown THEN body @@ [stack |-> err.stack] ELSE body

\* app.use((err, req, res, next) => ...): an error reaches the global handler
GlobalErrorHandler ==
    /\ server = "router"
    /\ last.op = "idle"
    /\ \E err \in Errors :
        last' = [op |-> "ERROR", code |-> IF err.status = 0 THEN 500 ELSE err.status]
                    @@ ErrorBody(err)
    /\ UNCHANGED <<pageVars, test, nodeEnv, server, bins, nextId, now, writes, issued, pending>>

\* app.use("*", ...): a request for a path that no route has
RouteNotFound ==
    /\ server = "router"
    /\ last.op = "idle"
    /\ last' = [op |-> "OTHER", code |-> 404, success |-> FALSE, error |-> "Route not found"]
    /\ UNCHANGED <<pageVars, test, nodeEnv, server, bins, nextId, now, writes, issued, pending>>

ServerInit ==
    /\ server = "router"
    /\ bins = <<>>
    /\ nextId = 1
    /\ now = 6
    /\ writes = 0
    /\ issued = {}
    /\ last = Idle
    /\ pending = [c \in Clients |-> NoRequest]
    /\ \E e \in EnvValues : nodeEnv = EnvOrDefault(e)
    /\ PageInit
    /\ test = NoTest

ServerNext ==
    \/ RouterGetBins
    \/ RouterPostBin
    \/ RouterPutBin
    \/ RouterDeleteBin
    \/ RouterGetNearby
    \/ GlobalErrorHandler
    \/ RouteNotFound
    \/ Respond

ServerSpec == ServerInit /\ [][ServerNext]_vars

---------------------------------------------------------------------------
(* mobileFetch: fetch with a timeout and retries *)

\* MOBILE_CONFIG.api.retryAttempts
retryAttempts == 3

\* string.includes(part)
StringIncludes(string, part) ==
    \E i \in 1..(Len(string) - Len(part) + 1) : SubSeq(string, i, i + Len(part) - 1) = part

\* The reason phrases of the statuses below; none with HTTP/2
StatusTexts ==
    [s \in {404, 500} |->
        IF s = 404 THEN {<<>>, <<"N", "o", "t", " ", "F", "o", "u", "n", "d">>}
        ELSE {<<>>, <<"I", "n", "t", "e", "r", "n", "a", "l", " ", "S", "e", "r", "v", "e",
               "r", " ", "E", "r", "r", "o", "r">>}]

\* How one fetch may end: with a response that is ok; with a response that is
\* not; rejected with an AbortError when the timeout aborts it; rejected with a
\* TypeError when the network fails, whose message is the browser's: Chrome's
\* "Failed to fetch", Firefox's "NetworkError when attempting to fetch
\* resource.", Safari's "Load failed"
FetchOutcomes ==
    {[kind |-> "response", status |-> 200, statusText |-> <<"O", "K">>]}
    \cup {[kind |-> "response", status |-> s, statusText |-> tx] :
            s \in {404, 500}, tx \in UNION {StatusTexts[c] : c \in {404, 500}}}
    \cup {[kind |-> "aborted", name |-> "AbortError",
           message |-> <<"T", "h", "e", " ", "u", "s", "e", "r", " ", "a", "b", "o",
                        "r", "t", "e", "d", " ", "a", " ", "r", "e", "q", "u", "e",
                        "s", "t", ".">>]}
    \cup {[kind |-> "network", name |-> "TypeError", message |-> m] :
            m \in {<<"F", "a", "i", "l", "e", "d", " ", "t", "o", " ", "f", "e", "t",
                     "c", "h">>,
                   <<"N", "e", "t", "w", "o", "r", "k", "E", "r", "r", "o", "r", " ",
                     "w", "h", "e", "n", " ", "a", "t", "t", "e", "m", "p", "t", "i",
                     "n", "g", " ", "t", "o", " ", "f", "e", "t", "c", "h", " ", "r",
                     "e", "s", "o", "u", "r", "c", "e", ".">>,
                   <<"L", "o", "a", "d", " ", "f", "a", "i", "l", "e", "d">>}}

\* response.ok
Ok(response) == response.status >= 200 /\ response.status <= 299

\* The error the catch block gets when the fetch ended with outcome
CaughtError(outcome) ==
    IF outcome.kind = "response"
    THEN [name |-> "Error",
          message |-> <<"H", "T", "T", "P", " ">> \o IntToString(outcome.status)
                      \o <<":", " ">> \o outcome.statusText]
    ELSE [name |-> outcome.name, message |-> outcome.message]

fetchWord == <<"f", "e", "t", "c", "h">>
networkWord == <<"n", "e", "t", "w", "o", "r", "k">>

\* isNetworkError
isNetworkError(error) ==
    \/ error.name = "AbortError"
    \/ StringIncludes(error.message, fetchWord)
    \/ StringIncludes(error.message, networkWord)

\* logMobileError keeping the 10 oldest entries of the list
logMobileErrorKeepingOldest(error, context, stored, t) ==
    LET errorInfo == [message |-> error.message, context |-> context, timestamp |-> t]
        errors == Append(stored, errorInfo)
    IN  IF Len(errors) > 10 THEN SubSeq(errors, 1, 10) ELSE errors

\* logMobileError: the list it stores under 'mobile_errors', having read the
\* list stored there, at time t
logMobileError(error, context, stored, t) ==
    LET errorInfo == [message |-> error.message, context |-> context, timestamp |-> t]
        errors == Append(stored, errorInfo)
    IN  IF Len(errors) > 10 THEN SubSeq(errors, Len(errors) - 10 + 1, Len(errors))
        ELSE errors

\* What a call of logMobileError at the time of the clock leaves
Logs(error, context) ==
    /\ mobileErrors' = logMobileError(error, context, mobileErrors, clock)
    /\ everLogged' = Append(everLogged,
                            [message |-> error.message, context |-> context,
                             timestamp |-> clock])
    /\ clock' = clock + 1

\* `api_retry_${retryCount + 1}`
RetryContext(n) ==
    CASE n = 1 -> "api_retry_1" [] n = 2 -> "api_retry_2" [] OTHER -> "api_retry_3"

\* The page calls mobileFetch(url, options); calls are made until one has
\* logged an error
MobileFetchCalled ==
    /\ mobile.pc = "idle"
    /\ everLogged = <<>>
    /\ mobile' = [pc |-> "fetching", retryCount |-> 0, attempts |-> <<>>, logged |-> <<>>]
    /\ UNCHANGED <<serverVars, test, mobileErrors, everLogged, clock, measured, location, page>>

\* The awaited fetch ends: the response is returned, or the catch block logs
\* the error and waits for a retry, or logs it and throws it
FetchSettles ==
    /\ mobile.pc = "fetching"
    /\ \E outcome \in FetchOutcomes :
        LET error == CaughtError(outcome)
            tried == [mobile EXCEPT !.attempts = Append(@, outcome)]
        IN  /\ mobile' =
                IF outcome.kind = "response" /\ Ok(outcome)
                THEN [tried EXCEPT !.pc = "resolved"] @@ [response |-> outcome]
                ELSE IF mobile.retryCount < retryAttempts /\ isNetworkError(error)
                THEN [tried EXCEPT !.pc = "waiting",
                                   !.logged = Append(@, <<"api_retry", mobile.retryCount + 1>>)]
                ELSE [tried EXCEPT !.pc = "rejected",
                                   !.logged = Append(@, <<"api_fetch_failed", 0>>)]
                     @@ [error |-> error]
           /\ IF outcome.kind = "response" /\ Ok(outcome)
              THEN UNCHANGED <<mobileErrors, everLogged, clock>>
              ELSE IF mobile.retryCount < retryAttempts /\ isNetworkError(error)
              THEN Logs(error, RetryContext(mobile.retryCount + 1))
              ELSE Logs(error, "api_fetch_failed")
    /\ UNCHANGED <<serverVars, test, measured, location, page>>

\* The delay before the retry is over: mobileFetch(url, options, retryCount + 1)
RetryStarts ==
    /\ mobile.pc = "waiting"
    /\ mobile' = [mobile EXCEPT !.pc = "fetching", !.retryCount = @ + 1]
    /\ UNCHANGED <<serverVars, test, mobileErrors, everLogged, clock, measured, location, page>>

\* The caller has the response or the error
MobileFetchReturned ==
    /\ mobile.pc \in {"resolved", "rejected"}
    /\ mobile' = NoCall
    /\ UNCHANGED <<serverVars, test, mobileErrors, everLogged, clock, measured, location, page>>

MobileNext ==
    \/ MobileFetchCalled
    \/ FetchSettles
    \/ RetryStarts
    \/ MobileFetchReturned

MobileSpec == Init /\ [][MobileNext]_vars

---------------------------------------------------------------------------
(* logMobileError called time after time, over the list a browser has stored *)

\* The most calls of logMobileError in a behaviour of LogSpec
MaxLogs == 11

\* The lists stored when the page is loaded: none, a few entries, 10, and more
\* than 10 as another script of the site could have left
Histories ==
    {[i \in 1..n |-> [message |-> "Location request timed out",
                      context |-> "geolocation_timeout", timestamp |-> i]] :
        n \in {0, 4, 10, 12}}

\* The errors the page logs with their contexts
LogErrors ==
    {[message |-> "Location request timed out", context |-> "geolocation_timeout"],
     [message |-> "Geolocation not supported on this device",
      context |-> "geolocation_not_supported"]}

LogInit ==
    /\ server = "demo"
    /\ bins = SampleBins
    /\ nextId = 6
    /\ now = 6
    /\ writes = 0
    /\ issued = {bins[i]._id : i \in DOMAIN bins}
    /\ last = Idle
    /\ pending = [c \in Clients |-> NoRequest]
    /\ nodeEnv = "development"
    /\ mobile = NoCall
    /\ mobileErrors \in Histories
    /\ everLogged = mobileErrors
    /\ clock = SessionStart
    /\ measured = NotMeasured
    /\ location = NoLocation
    /\ page = NoPage
    /\ test = NoTest

\* The page logs an error
MobileErrorLogged ==
    /\ clock < SessionStart + MaxLogs
    /\ \E e \in LogErrors : Logs(e, e.context)
    /\ UNCHANGED <<serverVars, test, mobile, measured, location, page>>

LogNext == MobileErrorLogged

LogSpec == LogInit /\ [][LogNext]_vars

---------------------------------------------------------------------------
(* deploy-railway.js: the test script run against a server that serves no one
   else *)

\* The most bins in the store when the script starts, and the most bins
\* performanceTest is asked to create
MaxTestBins == 2
MaxCount == 2

SAMPLE_BINS ==
    << [latitude |-> Num(40713), longitude |-> Num(-74006), status |-> Str(Empty)],
       [latitude |-> Num(40759), longitude |-> Num(-73985), status |-> Str(HalfFull)],
       [latitude |-> Num(40751), longitude |-> Num(-73993), status |-> Str(Full)] >>

\* Bodies performanceTest draws: within 0.05 degrees of (40.7128, -74.0060)
PerformanceBodies ==
    {[latitude |-> Num(40713 + 40), longitude |-> Num(-74006 - 30), status |-> Str(st)] :
        st \in {Empty, Full}}

\* The stores the script may find: up to MaxTestBins bins added at 1, 2, ...
TestStores(srv) ==
    {[i \in 1..n |->
        Bin(IF srv = "demo" THEN IntToString(i) ELSE ObjectId(i),
            SampleBins[i].latitude, SampleBins[i].longitude, SampleBins[i].status, i, i)] :
        n \in 0..MaxTestBins}

\* The handlers of the server the script talks to
GetBinsOf(srv, bs, nid) ==
    IF srv = "demo" THEN {demoGetBins(bs, nid)} ELSE routerGetBins(bs, nid)

PostBinOf(srv, bs, nid, body, t) ==
    IF srv = "demo" THEN demoPostBin(bs, nid, body, t) ELSE routerPostBin(bs, nid, body, t)

PutBinOf(srv, bs, nid, id, body, t) ==
    IF srv = "demo" THEN demoPutBin(bs, nid, id, body, t)
    ELSE routerPutBin(bs, nid, id, body, t)

DeleteBinOf(srv, bs, nid, id) ==
    IF srv = "demo" THEN demoDeleteBin(bs, nid, id) ELSE routerDeleteBin(bs, nid, id)

GetNearbyOf(srv, bs, nid, query) ==
    IF srv = "demo" THEN {demoGetNearby(bs, nid, query)} ELSE routerGetNearby(bs, nid, query)

\* array.slice(-n): from n before the end, from the start when n is 0 or more
\* than the length
slice(array, n) ==
    IF n = 0 \/ n >= Len(array) THEN array
    ELSE SubSeq(array, Len(array) - n + 1, Len(array))

\* The server handles a request of the script at time t with outcome o
Handles(o, t) ==
    /\ bins' = o.bins
    /\ nextId' = o.nextId
    /\ now' = t
    /\ issued' = IF o.code = 201 THEN issued \cup {o.data[1]._id} ELSE issued
    /\ UNCHANGED <<pageVars, server, writes, last, pending, nodeEnv>>

\* The command line of the script: all (the default) or performance with a count
TestCommands ==
    {[command |-> "all", count |-> 0]}
    \cup {[command |-> "performance", count |-> n] : n \in 1..MaxCount}

TestInit ==
    /\ server \in {"demo", "router"}
    /\ bins \in TestStores(server)
    /\ nextId = Len(bins) + 1
    /\ now = Len(bins) + 1
    /\ writes = 0
    /\ issued = {bins[i]._id : i \in DOMAIN bins}
    /\ last = Idle
    /\ pending = [c \in Clients |-> NoRequest]
    /\ nodeEnv = "development"
    /\ PageInit
    /\ \E c \in TestCommands :
        test = [pc |-> IF c.command = "all" THEN "getBins" ELSE "addBins",
                command |-> c.command, count |-> c.count,
                found |-> bins, mayGet |-> {o.data : o \in GetBinsOf(server, bins, nextId)},
                existingBins |-> <<>>, createdBins |-> <<>>, finalBins |-> <<>>,
                results |-> <<>>, testBins |-> <<>>, deleted |-> <<>>]

\* testGetBins() of runAllTests, test 2
TestGetBins ==
    /\ test.pc = "getBins"
    /\ \E o \in GetBinsOf(server, bins, nextId) :
        /\ test' = [test EXCEPT !.pc = "addBin",
                                !.existingBins = IF o.code = 200 THEN o.data ELSE <<>>]
        /\ Handles(o, now)

\* testAddBin(SAMPLE_BINS[i]) of runAllTests, test 3
TestAddBin ==
    /\ test.pc = "addBin"
    /\ \E t \in Times, i \in {Len(test.results) + 1} :
        \E o \in {PostBinOf(server, bins, nextId, SAMPLE_BINS[i], t)} :
            /\ test' = [test EXCEPT !.pc = IF i = Len(SAMPLE_BINS) THEN "updateBin" ELSE "addBin",
                                    !.results = Append(@, o.code),
                                    !.createdBins = IF o.code = 201 THEN @ \o o.data ELSE @]
            /\ Handles(o, t)

\* testUpdateBin(createdBins[0]._id, 'Full') of runAllTests, test 4
TestUpdateBin ==
    /\ test.pc = "updateBin"
    /\ test' = [test EXCEPT !.pc = "nearbyBins"]
    /\ IF Len(test.createdBins) > 0
       THEN \E t \in Times :
               Handles(PutBinOf(server, bins, nextId, test.createdBins[1]._id,
                                [status |-> Str(Full)], t), t)
       ELSE UNCHANGED <<pageVars, serverVars>>

\* testNearbyBins() of runAllTests, test 5: lat 40.7128, lng -74.0060, radius 5
TestNearbyBins ==
    /\ test.pc = "nearbyBins"
    /\ test' = [test EXCEPT !.pc = "getBinsAgain"]
    /\ \E o \in GetNearbyOf(server, bins, nextId,
                             [lat |-> Str(<<"4", "0", ".", "7", "1", "3">>),
                              lng |-> Str(<<"-", "7", "4", ".", "0", "0", "6">>),
                              radius |-> Str(<<"5">>)]) :
        Handles(o, now)

\* testGetBins() of runAllTests, test 6
TestGetBinsAgain ==
    /\ test.pc = "getBinsAgain"
    /\ \E o \in GetBinsOf(server, bins, nextId) :
        /\ test' = [test EXCEPT !.pc = IF Len(test.createdBins) > 0 THEN "deleteBin" ELSE "done",
                                !.finalBins = IF o.code = 200 THEN o.data ELSE <<>>,
                                !.testBins = test.createdBins]
        /\ Handles(o, now)

\* testDeleteBin(bin._id) for the next bin of the clean up, of runAllTests
\* (test 7) and of performanceTest
TestDeleteBin ==
    /\ test.pc = "deleteBin"
    /\ \E i \in {Len(test.deleted) + 1} :
       \E o \in {DeleteBinOf(server, bins, nextId, test.testBins[i]._id)} :
           /\ test' = [test EXCEPT !.pc = IF i = Len(test.testBins) THEN "done" ELSE "deleteBin",
                                   !.deleted = Append(@, o.code = 200)]
           /\ Handles(o, now)

\* performanceTest(count) starts count calls of testAddBin at once
PerformanceAddsBins ==
    /\ test.pc = "addBins"
    /\ \E bodies \in [1..test.count -> PerformanceBodies] :
        test' = [test EXCEPT !.pc = "allSettling",
                             !.results = [i \in 1..test.count |->
                                            [body |-> bodies[i], result |-> Undefined]]]
    /\ UNCHANGED <<pageVars, serverVars>>

\* The server handles one of the POST requests in flight, in any order
PerformancePostHandled ==
    /\ test.pc = "allSettling"
    /\ \E i \in DOMAIN test.results, t \in Times :
        \E o \in {PostBinOf(server, bins, nextId, test.results[i].body, t)} :
            /\ test.results[i].result = Undefined
            /\ test' = [test EXCEPT !.results[i].result =
                                        IF o.code = 201 THEN o.data[1] ELSE Null,
                                    !.createdBins =
                                        IF o.code = 201 THEN Append(@, o.data[1]) ELSE @]
            /\ Handles(o, t)

\* Promise.all(promises) is settled: testGetBins() and bins.slice(-successful)
PerformanceCleansUp ==
    /\ test.pc = "allSettling"
    /\ \A i \in DOMAIN test.results : test.results[i].result # Undefined
    /\ \E o \in GetBinsOf(server, bins, nextId) :
        LET successful ==
                Cardinality({i \in DOMAIN test.results : test.results[i].result # Null})
            got == IF o.code = 200 THEN o.data ELSE <<>>
            testBins == slice(got, successful)
        IN  /\ test' = [test EXCEPT !.pc = IF Len(testBins) > 0 THEN "deleteBin" ELSE "done",
                                    !.finalBins = got,
                                    !.testBins = testBins]
            /\ Handles(o, now)

TestNext ==
    \/ TestGetBins
    \/ TestAddBin
    \/ TestUpdateBin
    \/ TestNearbyBins
    \/ TestGetBinsAgain
    \/ TestDeleteBin
    \/ PerformanceAddsBins
    \/ PerformancePostHandled
    \/ PerformanceCleansUp

TestSpec == TestInit /\ [][TestNext]_vars

---------------------------------------------------------------------------
(* getMobileLocation: the promise, its timer and the two geolocation callbacks *)

\* getMobileLocation is called until the browser's clock has advanced by this
\* much (it advances with every error logged and every call that returns)
MaxLocationTicks == 3

\* The codes of a GeolocationPositionError, and a code that is none of them
PERMISSION_DENIED == 1
POSITION_UNAVAILABLE == 2
TIMEOUT == 3
GeolocationErrors ==
    {[code |-> c, message |-> ""] : c \in {PERMISSION_DENIED, POSITION_UNAVAILABLE, TIMEOUT}}
    \cup {[code |-> 0, message |-> m] : m \in {"", "Unknown Error"}}

\* What a callback does: the variables of the call after it, and the error it
\* logged if it logged one
Ran(loc, logged) == [loc |-> loc, logged |-> logged]

\* resolve(value) or reject(value) called by one of the callbacks
Settle(call, value, by) == [call |-> call, value |-> value, by |-> by]

\* The callback of setTimeout
timeoutCallback(loc) ==
    LET error == [message |-> "Location request timed out"]
    IN  IF ~loc.resolved
        THEN Ran([loc EXCEPT !.resolved = TRUE, !.settled = Append(@, Settle("reject", error, "timer"))],
                 <<[error |-> error, context |-> "geolocation_timeout"]>>)
        ELSE Ran(loc, <<>>)

\* clearTimeout(timeoutId): a timer that has not fired never fires
clearTimeout(timeoutId) == IF timeoutId = "set" THEN "cleared" ELSE timeoutId

\* The success callback without the test of resolved
successCallbackUntested(loc, position) ==
    Ran([loc EXCEPT !.resolved = TRUE, !.timeoutId = clearTimeout(@),
                    !.settled = Append(@, Settle("resolve", position, "success"))], <<>>)

\* The success callback of getCurrentPosition
successCallback(loc, position) ==
    IF ~loc.resolved
    THEN Ran([loc EXCEPT !.resolved = TRUE, !.timeoutId = clearTimeout(@),
                         !.settled = Append(@, Settle("resolve", position, "success"))], <<>>)
    ELSE Ran(loc, <<>>)

\* errorMessage of the error callback
errorMessage(error) ==
    CASE error.code = PERMISSION_DENIED ->
            "Location error: Permission denied. Please enable location access in your browser settings."
      [] error.code = POSITION_UNAVAILABLE ->
            "Location error: Position unavailable. Please check your GPS/WiFi connection."
      [] error.code = TIMEOUT -> "Location error: Request timed out. Please try again."
      [] OTHER -> IF error.message = "" THEN "Location error: Unknown error occurred."
                  ELSE "Location error: Unknown Error"

\* The error callback of getCurrentPosition
errorCallback(loc, error) ==
    LET customError == [message |-> errorMessage(error), code |-> error.code]
    IN  IF ~loc.resolved
        THEN Ran([loc EXCEPT !.resolved = TRUE, !.timeoutId = clearTimeout(@),
                             !.settled = Append(@, Settle("reject", customError, "error"))],
                 <<[error |-> customError, context |-> "geolocation_error"]>>)
        ELSE Ran(loc, <<>>)

\* The callback has run: the call's variables and the log after it
Runs(ran) ==
    /\ location' = ran.loc
    /\ IF ran.logged = <<>> THEN UNCHANGED <<mobileErrors, everLogged, clock>>
       ELSE Logs(ran.logged[1].error, ran.logged[1].context)
    /\ UNCHANGED <<serverVars, test, mobile, measured, page>>

\* The page calls getMobileLocation(options), in a browser with or without
\* navigator.geolocation
GetMobileLocationCalled ==
    /\ location.pc = "idle"
    /\ clock < SessionStart + MaxLocationTicks
    /\ \E geolocation \in BOOLEAN :
        LET error == [message |-> "Geolocation not supported on this device"]
            call == [pc |-> "called", resolved |-> FALSE, timeoutId |-> "unset",
                     fired |-> FALSE, success |-> "none", error |-> "none", settled |-> <<>>,
                     logged |-> Len(everLogged)]
        IN  IF ~geolocation
            THEN Runs(Ran([call EXCEPT !.settled = <<Settle("reject", error, "executor")>>],
                          <<[error |-> error, context |-> "geolocation_not_supported"]>>))
            ELSE Runs(Ran([call EXCEPT !.timeoutId = "set", !.success = "waiting",
                                       !.error = "waiting"], <<>>))

\* The timer fires
TimeoutFires ==
    /\ location.pc = "called"
    /\ location.timeoutId = "set"
    /\ Runs(timeoutCallback([location EXCEPT !.timeoutId = "fired"]))

\* The browser calls the success callback
PositionFound ==
    /\ location.pc = "called"
    /\ location.success = "waiting"
    /\ \E position \in {<<40713, -74006>>, <<0, 0>>} :
        Runs(successCallback([location EXCEPT !.success = "called"], position))

\* The browser calls the error callback
PositionFailed ==
    /\ location.pc = "called"
    /\ location.error = "waiting"
    /\ \E error \in GeolocationErrors :
        Runs(errorCallback([location EXCEPT !.error = "called"], error))

\* The promise's reactions have run and the page is ready to ask again
LocationReturned ==
    /\ location.pc = "called"
    /\ location.settled # <<>>
    /\ location.timeoutId # "set"
    /\ location.success # "waiting"
    /\ location.error # "waiting"
    /\ location' = NoLocation
    /\ clock' = clock + 1
    /\ UNCHANGED <<serverVars, test, mobile, mobileErrors, everLogged, measured, page>>

LocationInit ==
    /\ server = "demo"
    /\ bins = SampleBins
    /\ nextId = 6
    /\ now = 6
    /\ writes = 0
    /\ issued = {bins[i]._id : i \in DOMAIN bins}
    /\ last = Idle
    /\ pending = [c \in Clients |-> NoRequest]
    /\ nodeEnv = "development"
    /\ PageInit
    /\ test = NoTest

LocationNext ==
    \/ GetMobileLocationCalled
    \/ TimeoutFires
    \/ PositionFound
    \/ PositionFailed
    \/ LocationReturned

LocationSpec == LocationInit /\ [][LocationNext]_vars

---------------------------------------------------------------------------
(* calculateDistance called by the page for pairs of points *)

\* Points in range: on the equator, a pair opposite each other on the globe
\* (2.5, 0 and -2.5, 180), New York, London, Sydney, Tokyo, the north pole
DistancePoints ==
    <<<<0, 0>>, <<0, 1000>>, <<2500, 0>>, <<-2500, 180000>>, <<40713, -74006>>, <<41713, -74006>>, <<51500, -100>>, <<-33900, 151200>>, <<35700, 139700>>, <<90000, 0>>, <<0, 179900>>>>

DistanceInit ==
    /\ server = "demo"
    /\ bins = SampleBins
    /\ nextId = 6
    /\ now = 6
    /\ writes = 0
    /\ issued = {bins[i]._id : i \in DOMAIN bins}
    /\ last = Idle
    /\ pending = [c \in Clients |-> NoRequest]
    /\ nodeEnv = "development"
    /\ PageInit
    /\ test = NoTest

\* The page calls calculateDistance for two of the points, and again with the
\* points exchanged
DistanceCalculated ==
    /\ \E i, j \in DOMAIN DistancePoints :
        LET from == DistancePoints[i]
            to == DistancePoints[j]
        IN  measured' = [called |-> TRUE, from |-> i, to |-> j,
                         distance |-> calculateDistance(from[1], from[2], to[1], to[2]),
                         back |-> calculateDistance(to[1], to[2], from[1], from[2])]
    /\ UNCHANGED <<serverVars, test, mobile, mobileErrors, everLogged, clock, location, page>>

DistanceNext == DistanceCalculated

DistanceSpec == DistanceInit /\ [][DistanceNext]_vars

---------------------------------------------------------------------------
(* frontend/script.js, the find page: loadBinsData and refreshBins against the
   demo server.  A request is sent, handled by the server, and its response
   arrives later; responses of requests in flight arrive in any order. *)

\* The most calls of loadBinsData in a behaviour of FindSpec
MaxLoads == 3

\* The most alerts on the page when the user deletes one more bin
MaxAlerts == 4

\* showAlert(message, type); of: the call of loadBinsData it was shown for, and
\* n: the number in the message (0 where there is none)
Alert(message, type, of, n) == [message |-> message, type |-> type, of |-> of, n |-> n]

\* getDemoData() at time t
getDemoData(t) ==
    << Bin(<<"d", "e", "m", "o", "1">>, Num(40713), Num(-74006), Str(Empty), t, t),
       Bin(<<"d", "e", "m", "o", "2">>, Num(40759), Num(-73985), Str(HalfFull), t, t),
       Bin(<<"d", "e", "m", "o", "3">>, Num(40751), Num(-73993), Str(Full), t, t) >>

\* What fetch and response.json() give apiRequest for GET /bins: the body of the
\* server's answer, the body of an error answer, or a TypeError when the
\* server cannot be reached
BinsResponses(o) ==
    {[ok |-> TRUE, name |-> "", message |-> "", data |-> o.data],
     [ok |-> FALSE, name |-> "Error", message |-> "Server Error - Unable to fetch bins",
      data |-> <<>>],
     [ok |-> FALSE, name |-> "TypeError", message |-> "Failed to fetch", data |-> <<>>]}

\* apiRequest: the alerts it shows before it returns or throws
apiRequest(response, of) ==
    IF ~response.ok /\ response.name = "TypeError"
    THEN <<Alert("Cannot connect to server. Please make sure the server is running on port 5000.",
                 "error", of, 0)>>
    ELSE <<>>

\* fetchBins: the bins it returns and the alerts shown
fetchBins(response, of, t) ==
    IF response.ok
    THEN [bins |-> response.data, alerts |-> apiRequest(response, of)]
    ELSE [bins |-> getDemoData(t),
          alerts |-> apiRequest(response, of)
                     \o <<Alert("Failed to fetch bins. Using demo mode.", "warning", of, 0)>>]

\* addBinMarkers(bins): currentMarkers after it, one marker for each bin
addBinMarkers(pg, binList) == IF pg.map THEN binList ELSE pg.currentMarkers

\* loadBinsData from the return of fetchBins on: the page after it.  It
\* catches every error, so the promise it returns is never rejected
loadBinsData(pg, response, of, t) ==
    LET fetched == fetchBins(response, of, t)
    IN  [pg EXCEPT !.allBins = fetched.bins,
                   !.currentMarkers = addBinMarkers(pg, fetched.bins),
                   !.alerts = @ \o fetched.alerts,
                   !.threw = FALSE]

\* refreshBins from the return of loadBinsData on
refreshBins(pg, of) ==
    IF pg.threw
    THEN [pg EXCEPT !.alerts =
            Append(@, Alert("Could not refresh data. Server may be offline.", "error", of, 0))]
    ELSE [pg EXCEPT !.alerts =
            Append(@, Alert("Refreshed! Found N bins", "success", of, Len(pg.allBins)))]

\* A call of loadBinsData has sent its request
Load(by, pg) ==
    [by |-> by, state |-> "sent", response |-> Undefined,
     overlaps |-> \E k \in DOMAIN pg.loads : pg.loads[k].state # "done"]

FindInit ==
    /\ server = "demo"
    /\ bins = SampleBins
    /\ nextId = 6
    /\ now = 6
    /\ writes = 0
    /\ issued = {bins[i]._id : i \in DOMAIN bins}
    /\ last = Idle
    /\ pending = [c \in Clients |-> NoRequest]
    /\ nodeEnv = "development"
    /\ mobile = NoCall
    /\ mobileErrors = <<>>
    /\ everLogged = <<>>
    /\ clock = SessionStart
    /\ measured = NotMeasured
    /\ location = NoLocation
    /\ test = NoTest
    /\ page = [view |-> "find", map |-> TRUE, allBins |-> <<>>, currentMarkers |-> <<>>,
               alerts |-> <<>>, threw |-> FALSE,
               loads |-> <<[by |-> "initializeFindPage", state |-> "sent",
                            response |-> Undefined, overlaps |-> FALSE]>>]

\* What no action of the find page changes
FindFrame == UNCHANGED <<server, writes, last, pending, nodeEnv, mobile, mobileErrors,
                         everLogged, clock, measured, location, test>>

\* The user clicks Refresh: refreshBins up to its await
RefreshClicked ==
    /\ page.view = "find"
    /\ Len(page.loads) < MaxLoads
    /\ page' = [page EXCEPT
                    !.alerts = Append(@, Alert("Refreshing bins data...", "info",
                                               Len(page.loads) + 1, 0)),
                    !.loads = Append(@, Load("refresh", page))]
    /\ UNCHANGED <<bins, nextId, now, issued>>
    /\ FindFrame

\* The user deletes the bin of a marker (confirmDeleteBin): the request, its
\* answer, and loadBinsData called when the answer is 200
DeleteConfirmed ==
    /\ page.view = "find"
    /\ Len(page.loads) < MaxLoads
    /\ Len(page.alerts) < MaxAlerts
    /\ \E i \in DOMAIN page.currentMarkers :
        \E o \in {demoDeleteBin(bins, nextId, page.currentMarkers[i]._id)} :
            /\ bins' = o.bins
            /\ page' = IF o.code = 200
                       THEN [page EXCEPT
                                !.alerts = Append(@, Alert("Bin deleted successfully!", "success",
                                                           Len(page.loads) + 1, 0)),
                                !.loads = Append(@, Load("delete", page))]
                       ELSE [page EXCEPT
                                !.alerts = Append(@, Alert("Failed to delete bin: Bin not found",
                                                           "error", 0, 0))]
    /\ UNCHANGED <<nextId, now, issued>>
    /\ FindFrame

\* The server handles the GET /bins of a call of loadBinsData, or cannot be
\* reached
LoadHandled ==
    /\ page.view = "find"
    /\ \E k \in DOMAIN page.loads :
        /\ page.loads[k].state = "sent"
        /\ \E response \in BinsResponses(demoGetBins(bins, nextId)) :
            page' = [page EXCEPT !.loads[k].state = "answered",
                                 !.loads[k].response = response]
    /\ UNCHANGED <<bins, nextId, now, issued>>
    /\ FindFrame

\* The response of a call of loadBinsData arrives: fetchBins returns,
\* loadBinsData runs to its end, and so does refreshBins if it made the call
LoadArrives ==
    /\ page.view = "find"
    /\ \E k \in DOMAIN page.loads :
        /\ page.loads[k].state = "answered"
        /\ \E loaded \in {loadBinsData([page EXCEPT !.loads[k].state = "done"],
                                        page.loads[k].response, k, clock)} :
            page' = IF page.loads[k].by = "refresh" THEN refreshBins(loaded, k) ELSE loaded
    /\ UNCHANGED <<bins, nextId, now, issued>>
    /\ FindFrame

FindNext ==
    \/ RefreshClicked
    \/ DeleteConfirmed
    \/ LoadHandled
    \/ LoadArrives

FindSpec == FindInit /\ [][FindNext]_vars

---------------------------------------------------------------------------
(* frontend/script.js, the add-bin page: initializeAddPage starts the map and
   does not wait for it; the map is created when the timer of initializeMap
   fires, and the geolocation result comes when the browser has it. *)

\* The most clicks on the map in a behaviour of AddSpec
MaxClicks == 2

\* The places the browser reports and the user clicks, in thousandths of a degree
Places == {[lat |-> 40713, lng |-> -74006], [lat |-> 51500, lng |-> -100]}

\* showAlert(message, type) on the add-bin page
Shown(pg, message, type) ==
    [pg EXCEPT !.alerts = Append(@, [message |-> message, type |-> type])]

\* addUserMarker(location): nothing without a map
addUserMarker(pg, place) == IF ~pg.map THEN pg ELSE [pg EXCEPT !.userMarker = place]

\* addTempMarker(location): nothing without a map
addTempMarker(pg, place) == IF ~pg.map THEN pg ELSE [pg EXCEPT !.tempMarker = place]

\* The message of errorCallback in getCurrentLocation
locationErrorMessage(code) ==
    CASE code = PERMISSION_DENIED ->
           "Failed to get location: Permission denied. Please allow location access and try again."
      [] code = POSITION_UNAVAILABLE ->
           "Failed to get location: Position unavailable. Please check your GPS/internet connection."
      [] code = TIMEOUT -> "Failed to get location: Request timeout. Please try again."
      [] OTHER -> "Failed to get location: Unknown error occurred."

\* The alert of initializeAddPage when there is no location
ClickToSelect(pg) ==
    Shown(pg, "Please click on the map to select a location for the new bin.", "info")

\* initializeAddPage up to its first await: initializeMap has set its timer,
\* and checkGeolocationSupport is running.  geolocation: navigator.geolocation
\* exists; permission: the state navigator.permissions reports, "none" when
\* there is no navigator.permissions
AddInit ==
    /\ server = "demo"
    /\ bins = SampleBins
    /\ nextId = 6
    /\ now = 6
    /\ writes = 0
    /\ issued = {bins[i]._id : i \in DOMAIN bins}
    /\ last = Idle
    /\ pending = [c \in Clients |-> NoRequest]
    /\ nodeEnv = "development"
    /\ mobile = NoCall
    /\ mobileErrors = <<>>
    /\ everLogged = <<>>
    /\ clock = SessionStart
    /\ measured = NotMeasured
    /\ location = NoLocation
    /\ test = NoTest
    /\ \E geolocation \in BOOLEAN, permission \in {"granted", "prompt", "denied", "none"} :
        page = [view |-> "add", pc |-> "checkGeolocationSupport", map |-> FALSE,
                mapTimer |-> TRUE, geolocation |-> geolocation, permission |-> permission,
                userLocation |-> Null, selectedLocation |-> Null, userMarker |-> Null,
                tempMarker |-> Null, clicks |-> 0, alerts |-> <<>>]

\* What no action of the add-bin page changes
AddFrame == UNCHANGED <<serverVars, mobile, mobileErrors, everLogged, clock, measured,
                        location, test>>

\* The timer of initializeMap fires: the map is created and is ready
MapTimerFires ==
    /\ page.view = "add"
    /\ page.mapTimer
    /\ page' = Shown([page EXCEPT !.map = TRUE, !.mapTimer = FALSE],
                     "Map loaded successfully!", "success")
    /\ AddFrame

\* checkGeolocationSupport returns, and initializeAddPage goes on to call
\* getCurrentLocation or to its else branch
GeolocationChecked ==
    /\ page.view = "add"
    /\ page.pc = "checkGeolocationSupport"
    /\ page' =
        IF ~page.geolocation
        THEN ClickToSelect(Shown([page EXCEPT !.pc = "done"],
                "Geolocation is not supported by your browser. Using default location.",
                "warning"))
        ELSE IF page.permission = "denied"
        THEN ClickToSelect(Shown([page EXCEPT !.pc = "done"],
                "Location access is blocked. Please enable it in your browser settings.",
                "warning"))
        ELSE Shown([page EXCEPT !.pc = "getCurrentPosition"],
                   "Getting your location...", "info")
    /\ AddFrame

\* The browser has a position: successCallback of getCurrentLocation, and
\* initializeAddPage from its await to its end
PositionObtained ==
    /\ page.view = "add"
    /\ page.pc = "getCurrentPosition"
    /\ \E place \in Places :
        \E found \in {Shown([page EXCEPT !.pc = "done", !.userLocation = place],
                             "Location found! Accuracy: Nm", "success")} :
        \E marked \in {addUserMarker(found, place)} :
        \E selected \in {[marked EXCEPT !.selectedLocation = place]} :
            page' = Shown(addTempMarker(selected, place),
                          "Current location detected! Click elsewhere on the map to choose a different location.",
                          "success")
    /\ AddFrame

\* The browser has no position: errorCallback of getCurrentLocation, and the
\* catch of initializeAddPage
PositionRefused ==
    /\ page.view = "add"
    /\ page.pc = "getCurrentPosition"
    /\ \E code \in {PERMISSION_DENIED, POSITION_UNAVAILABLE, TIMEOUT} :
        page' = ClickToSelect(Shown([page EXCEPT !.pc = "done"],
                                    locationErrorMessage(code), "error"))
    /\ AddFrame

\* The user clicks on the map, which is in add-bin mode
MapClicked ==
    /\ page.view = "add"
    /\ page.map
    /\ page.clicks < MaxClicks
    /\ \E place \in Places :
        page' = Shown(addTempMarker([page EXCEPT !.selectedLocation = place,
                                                 !.clicks = @ + 1], place),
                      "Location selected! You can now choose the bin status.", "success")
    /\ AddFrame

AddNext ==
    \/ MapTimerFires
    \/ GeolocationChecked
    \/ PositionObtained
    \/ PositionRefused
    \/ MapClicked

AddSpec == AddInit /\ [][AddNext]_vars

---------------------------------------------------------------------------
(* What the claims speak of *)

Missing(x) == x.t = "undefined"
InLatRange(n) == ~n.nan /\ n.v >= -90 * Unit /\ n.v <= 90 * Unit
InLngRange(n) == ~n.nan /\ n.v >= -180 * Unit /\ n.v <= 180 * Unit
IsStatus(x) == x \in {Str(Empty), Str(HalfFull), Str(Full)}

\* The query point and radius of a nearby request
QueryLat(q) == parseFloat(q.lat)
QueryLng(q) == parseFloat(q.lng)
QueryRadius(q) == parseFloat(RadiusOrDefault(q))

\* lat and lng given and in range, the radius (given or 5) positive
ValidQuery(q) ==
    /\ ~Missing(q.lat) /\ ~Missing(q.lng)
    /\ InLatRange(QueryLat(q)) /\ InLngRange(QueryLng(q))
    /\ ~QueryRadius(q).nan /\ QueryRadius(q).v > 0

\* The great-circle distance from the query point of q to the bin, a number
\* for the points of the stores
DistanceTo(q, bin) ==
    calculateDistance(QueryLat(q).v, QueryLng(q).v, bin.latitude.v, bin.longitude.v).v

\* The positions in the store of the bins within the radius of q
InRadius(q) == {i \in DOMAIN bins : DistanceTo(q, bins[i]) <= QueryRadius(q).v}

Range(f) == {f[i] : i \in DOMAIN f}

Answered(srv, op) == server = srv /\ last.op = op
Answering(op) == last.op = "idle" /\ last'.op = op

\* C1: for a valid query the demo server's nearby route answers 200 with exactly
\* the stored bins whose distance to the query point is <= the radius, each
\* once: a bin at the radius is in, a farther one is out, none is dropped for
\* sharing its coordinates with another.
C1_DemoNearbyExact ==
    (Answered("demo", "NEARBY") /\ ValidQuery(last.req)) =>
        /\ last.code = 200
        /\ Len(last.data) = Cardinality(InRadius(last.req))
        /\ \A i \in DOMAIN bins :
            (i \in InRadius(last.req)) <=> (\E k \in DOMAIN last.data : last.data[k] = bins[i])

\* A nearby answer that holds a bin at exactly the radius and two bins at the
\* same coordinates, while a stored bin lies farther than the radius
C1_Witness ==
    /\ Answered("demo", "NEARBY") /\ ValidQuery(last.req) /\ last.code = 200
    /\ \E k \in DOMAIN last.data : DistanceTo(last.req, last.data[k]) = QueryRadius(last.req).v
    /\ \E i \in DOMAIN bins : DistanceTo(last.req, bins[i]) > QueryRadius(last.req).v
    /\ \E k, l \in DOMAIN last.data :
        /\ k # l
        /\ last.data[k].latitude = last.data[l].latitude
        /\ last.data[k].longitude = last.data[l].longitude

\* C2: every bin the production router's nearby route returns has a great-circle
\* distance to the query point that is <= the radius.
C2_RouterNearbyWithinRadius ==
    (Answered("router", "NEARBY") /\ last.code = 200) =>
        \A k \in DOMAIN last.data : DistanceTo(last.req, last.data[k]) <= QueryRadius(last.req).v

\* The position in the store of the bin with this _id
PositionOf(id) == findIndex(bins, id)

\* C3: the list a nearby query returns (router and demo server alike) is ordered
\* by addedAt descending, bins of equal addedAt in insertion order.
C3_NearbyNewestFirst ==
    (last.op = "NEARBY" /\ last.code = 200) =>
        \A k, l \in DOMAIN last.data :
            k < l =>
                \/ last.data[k].addedAt > last.data[l].addedAt
                \/ /\ last.data[k].addedAt = last.data[l].addedAt
                   /\ PositionOf(last.data[k]._id) < PositionOf(last.data[l]._id)

\* C4: a nearby query whose lat or lng is missing or out of range is answered
\* 400 and returns no bins.
C4_NearbyRejectsBadPoint ==
    (last.op = "NEARBY"
     /\ (\/ Missing(last.req.lat) \/ Missing(last.req.lng)
         \/ (~QueryLat(last.req).nan /\ ~InLatRange(QueryLat(last.req)))
         \/ (~QueryLng(last.req).nan /\ ~InLngRange(QueryLng(last.req))))) =>
        last.code = 400 /\ last.data = <<>>

\* C5: a nearby query (its point given and in range) whose radius is not a
\* number, zero or negative is answered 400 and returns no bins.
C5_NearbyRejectsBadRadius ==
    (last.op = "NEARBY" /\ ~Missing(last.req.lat) /\ ~Missing(last.req.lng)
     /\ InLatRange(QueryLat(last.req)) /\ InLngRange(QueryLng(last.req))
     /\ (QueryRadius(last.req).nan \/ QueryRadius(last.req).v <= 0)) =>
        last.code = 400 /\ last.data = <<>>

\* C6: every bin in the store has a latitude in [-90, 90], a longitude in
\* [-180, 180] and a status among Empty, Half-Full, Full.
C6_StoredBinsValid ==
    \A i \in DOMAIN bins :
        /\ bins[i].latitude.t = "number" /\ InLatRange(bins[i].latitude)
        /\ bins[i].longitude.t = "number" /\ InLngRange(bins[i].longitude)
        /\ IsStatus(bins[i].status)

\* The store holds a bin created since the start, and a create request with an
\* out-of-range latitude has just been refused
C6_Witness ==
    /\ \E i \in DOMAIN bins : bins[i].addedAt >= 6
    /\ last.op = "POST" /\ last.code = 400
    /\ last.req.latitude = Num(91 * Unit)

\* C7: a create request with a numeric latitude in [-90, 90] (zero included), a
\* numeric longitude in [-180, 180] and a status of the three is answered 201,
\* and the store then holds a new bin with exactly those values.
C7_CreateAcceptsValid ==
    (last.op = "POST"
     /\ last.req.latitude.t = "number" /\ InLatRange(last.req.latitude)
     /\ last.req.longitude.t = "number" /\ InLngRange(last.req.longitude)
     /\ IsStatus(last.req.status)) =>
        /\ last.code = 201
        /\ bins # <<>>
        /\ bins[Len(bins)].latitude = last.req.latitude
        /\ bins[Len(bins)].longitude = last.req.longitude
        /\ bins[Len(bins)].status = last.req.status

\* C8: in the demo server the stored bins have pairwise distinct _id values, and
\* the _id given to a new bin was never issued before, also not to a bin since
\* deleted.
C8_DemoIdsUnique ==
    /\ [](server = "demo" =>
            \A i, j \in DOMAIN bins : bins[i]._id = bins[j]._id => i = j)
    /\ [][(server = "demo" /\ Answering("POST") /\ last'.code = 201) =>
            last'.data[1]._id \notin issued]_vars

\* A bin has just been created after another one was deleted
C8_Witness ==
    /\ Answered("demo", "POST") /\ last.code = 201
    /\ \E id \in issued : PositionOf(id) = 0

\* C9: a successful status update sets the bin's status to the requested value
\* and its updatedAt to the time of the update, and nothing else: the bin's _id,
\* latitude, longitude and addedAt, the number and order of bins and every other
\* bin are as before.
C9_UpdateFrame ==
    [][(Answering("PUT") /\ last'.code = 200) =>
        /\ Len(bins') = Len(bins)
        /\ nextId' = nextId
        /\ \E i \in DOMAIN bins :
            /\ bins[i]._id = last'.req.id
            /\ bins'[i] = [bins[i] EXCEPT !.status = last'.req.status,
                                          !.updatedAt = last'.at]
            /\ \A j \in DOMAIN bins : j # i => bins'[j] = bins[j]]_vars

\* A status update has just changed the status and the updatedAt of a bin
C9_Witness ==
    /\ last.op = "PUT" /\ last.code = 200
    /\ \E i \in DOMAIN bins :
        /\ bins[i]._id = last.req.id
        /\ bins[i].status = last.req.status
        /\ bins[i].updatedAt = last.at
        /\ bins[i].updatedAt > bins[i].addedAt
        /\ Len(bins) > 1

\* The request of this step names an id no stored bin has
NamesAbsentId == \A i \in DOMAIN bins : bins[i]._id # last'.req.id

StoreUnchanged == bins' = bins /\ nextId' = nextId

\* A delete answered 200 removes the named bin and no other
DeletesNamedBin ==
    (Answering("DELETE") /\ last'.code = 200) =>
        \E i \in DOMAIN bins :
            /\ bins[i]._id = last'.req.id
            /\ bins' = [k \in 1..(Len(bins) - 1) |-> IF k < i THEN bins[k] ELSE bins[k + 1]]
            /\ nextId' = nextId

InvalidCreate(body) ==
    \/ Missing(body.latitude) \/ Missing(body.longitude) \/ Missing(body.status)
    \/ ToNumber(body.latitude).nan \/ ToNumber(body.longitude).nan
    \/ ~InLatRange(ToNumber(body.latitude))
    \/ ~InLngRange(ToNumber(body.longitude))
    \/ ~IsStatus(body.status)

\* C11: a create request with a missing field, a non-numeric or out-of-range
\* coordinate or a status outside the three, and a status update with a status
\* outside the three, is answered 400 and leaves the bins and the next id
\* unchanged.
C11_InvalidRequestsRefused ==
    [][(\/ Answering("POST") /\ InvalidCreate(last'.req)
        \/ Answering("PUT") /\ ~IsStatus(last'.req.status)) =>
            (last'.code = 400 /\ StoreUnchanged)]_vars

\* C12: a nearby query, answered 200 or refused, and a list-all query leave the
\* store as it was: the same bins with the same fields in the same order, and
\* the same next id.
C12_ReadsLeaveStore ==
    [][(Answering("NEARBY") \/ Answering("GET")) => StoreUnchanged]_vars

\* A nearby query has just returned some but not all of the stored bins, after
\* a request that changed the store
C12_Witness ==
    /\ last.op = "NEARBY" /\ last.code = 200
    /\ last.data # <<>> /\ Len(last.data) < Len(bins)
    /\ writes > 0

\* The responses the nearby route may give to the query q over the store st
NearbyResponses(st, q) ==
    IF server = "demo"
    THEN {[code |-> demoGetNearby(st, nextId, q).code, data |-> demoGetNearby(st, nextId, q).data]}
    ELSE {[code |-> o.code, data |-> o.data] : o \in routerGetNearby(st, nextId, q)}

C14_ValidNearbyCounted ==
    /\ (last.op = "NEARBY" /\ ValidQuery(last.req)) =>
            (last.code = 200 /\ last.success /\ last.data \in Seq(Range(bins)))
    /\ (last.op \in {"NEARBY", "GET"} /\ last.code = 200) =>
            last.count = Len(last.data)

\* A valid nearby query has just been answered with the empty list and count 0
\* by a store that holds bins, all of them out of range
C14_Witness ==
    /\ last.op = "NEARBY" /\ ValidQuery(last.req) /\ last.code = 200
    /\ bins # <<>> /\ last.data = <<>> /\ last.count = 0

\* C15: for a query point next to longitude 180 the production router's nearby
\* route returns every stored bin whose great-circle distance is within the
\* radius, also a bin on the other side of the antimeridian.
C15_RouterAcrossAntimeridian ==
    (Answered("router", "NEARBY") /\ ValidQuery(last.req)
     /\ Abs(QueryLng(last.req).v) > 179 * Unit) =>
        \A i \in InRadius(last.req) : \E k \in DOMAIN last.data : last.data[k] = bins[i]

\* C16: a nearby query with radius 0 returns the bins whose distance to the
\* query point is exactly 0, the bins at the query point, all of them and no
\* other bin.
C16_RadiusZeroColocated ==
    (last.op = "NEARBY" /\ ~Missing(last.req.lat) /\ ~Missing(last.req.lng)
     /\ InLatRange(QueryLat(last.req)) /\ InLngRange(QueryLng(last.req))
     /\ ~Missing(last.req.radius) /\ parseFloat(last.req.radius) = Num(0)) =>
        /\ last.code = 200
        /\ Len(last.data) = Cardinality({i \in DOMAIN bins : DistanceTo(last.req, bins[i]) = 0})
        /\ \A i \in DOMAIN bins :
            (DistanceTo(last.req, bins[i]) = 0)
                <=> (\E k \in DOMAIN last.data : last.data[k] = bins[i])

\* A query with radius 0 has just returned the two bins at the query point and
\* not the third bin of the store
C16_Witness ==
    /\ last.op = "NEARBY" /\ last.code = 200
    /\ ~Missing(last.req.radius) /\ parseFloat(last.req.radius) = Num(0)
    /\ Len(last.data) = 2 /\ Len(bins) = 3
    /\ \A k \in DOMAIN last.data :
        /\ last.data[k].latitude = QueryLat(last.req)
        /\ last.data[k].longitude = QueryLng(last.req)

\* C17: a nearby query that gives lat and lng and no radius is answered as the
\* same query with radius=5 is on the same store.
C17_DefaultRadiusFive ==
    (last.op = "NEARBY" /\ ~Missing(last.req.lat) /\ ~Missing(last.req.lng)
     /\ Missing(last.req.radius)) =>
        [code |-> last.code, data |-> last.data]
            \in NearbyResponses(bins, [last.req EXCEPT !.radius = Str(<<"5">>)])

\* A query without radius has just returned a bin 4 km away and not the bin
\* 18 km away
C17_Witness ==
    /\ last.op = "NEARBY" /\ Missing(last.req.radius) /\ last.code = 200
    /\ \E k \in DOMAIN last.data : DistanceTo(last.req, last.data[k]) > 0
    /\ \E i \in DOMAIN bins :
        /\ DistanceTo(last.req, bins[i]) > 5 * Unit
        /\ DistanceTo(last.req, bins[i]) < 50 * Unit
        /\ \A k \in DOMAIN last.data : last.data[k] # bins[i]

\* C18: two nearby queries with the same lat, lng and radius, answered over the
\* same store with no create, update or delete in between, get identical
\* responses: the same bins in the same order with the same count.
C18_SameQuerySameResponse ==
    (/\ pending["c1"].phase = "answered" /\ pending["c2"].phase = "answered"
     /\ pending["c1"].query = pending["c2"].query
     /\ pending["c1"].during = {bins} /\ pending["c2"].during = {bins}) =>
        /\ pending["c1"].code = pending["c2"].code
        /\ pending["c1"].data = pending["c2"].data

\* C19: with NODE_ENV = production no error response of the API server holds a
\* stack trace; an error response carries success: false and a human-readable
\* error string.
C19_NoStackInProduction ==
    (nodeEnv = "production" /\ last.op # "idle" /\ last.code >= 400) =>
        /\ "stack" \notin DOMAIN last
        /\ last.success = FALSE
        /\ last.error # ""

\* In production the global error handler has just answered an error that has
\* a stack and no status
C19_Witness ==
    /\ nodeEnv = "production"
    /\ last.op = "ERROR" /\ last.code = 500
    /\ last.error = "Cannot read properties of undefined"

\* The fetch of the call ended this way each time
AllAttempts(kinds) == \A i \in DOMAIN mobile.attempts : mobile.attempts[i].kind \in kinds

\* C20: mobileFetch retries on network failures only (the request aborted by
\* its timeout, or the fetch failing on the network) and at most 3 times: when
\* every attempt ends in a network failure it stops after the third retry and
\* rejects with the last error; a response with a status that is not ok is
\* rejected with no retry.
C20_RetriesOnNetworkFailure ==
    mobile.pc # "idle" =>
        /\ mobile.retryCount <= retryAttempts
        /\ \A i \in DOMAIN mobile.attempts :
            i < Len(mobile.attempts) => mobile.attempts[i].kind \in {"aborted", "network"}
        /\ (mobile.pc = "rejected" /\ AllAttempts({"aborted", "network"})) =>
                /\ Len(mobile.attempts) = retryAttempts + 1
                /\ mobile.error = CaughtError(mobile.attempts[Len(mobile.attempts)])
        /\ (mobile.attempts # <<>> /\ mobile.pc \in {"waiting", "rejected"}
             /\ mobile.attempts[Len(mobile.attempts)].kind = "response") =>
                mobile.pc = "rejected"

\* The last n elements of the sequence s, all of s when it has fewer
LastOf(s, n) == IF Len(s) <= n THEN s ELSE SubSeq(s, Len(s) - n + 1, Len(s))

\* C21: after any calls of logMobileError, whatever list was stored before
\* them, the list under 'mobile_errors' holds at most 10 entries, and when more
\* than 10 errors have been logged it holds the 10 most recent ones in the
\* order they were logged.
C21_LastTenErrorsKept ==
    clock > SessionStart =>
        /\ Len(mobileErrors) <= 10
        /\ mobileErrors = LastOf(everLogged, 10)

\* 11 errors have been logged over a stored list of 12 entries
C21_Witness ==
    /\ clock = SessionStart + 11
    /\ Len(everLogged) = 12 + 11
    /\ Len(mobileErrors) = 10
    /\ mobileErrors[1].timestamp = SessionStart + 1

\* The script's run of the given command has ended
TestDone(command) == test.pc = "done" /\ test.command = command

\* C22: creating valid bins and deleting each by the _id returned at creation
\* leaves GET /api/bins with the same bins in the same order and with the same
\* count as before the creations, whatever the store held: after runAllTests
\* the responses GET may give are those it might give when the script started,
\* and on the demo server it gives what the script's first GET saw.
C22_CreateDeleteRoundTrip ==
    TestDone("all") =>
        /\ \A i \in DOMAIN test.deleted : test.deleted[i]
        /\ {o.data : o \in GetBinsOf(server, bins, nextId)} = test.mayGet
        /\ {o.count : o \in GetBinsOf(server, bins, nextId)} = {Len(test.found)}
        /\ server = "demo" => bins = test.existingBins

\* runAllTests has created its three bins over a store of MaxTestBins bins
\* and deleted them on the demo server
C22_Witness ==
    /\ TestDone("all")
    /\ server = "demo"
    /\ Len(test.createdBins) = Len(SAMPLE_BINS)
    /\ Len(test.deleted) = Len(SAMPLE_BINS)
    /\ Len(test.existingBins) > 0
    /\ nextId = Len(test.found) + Len(SAMPLE_BINS) + 1

\* C23: the clean up of performanceTest deletes exactly the bins the test
\* created: every bin that was in the store before the test is in it
\* afterwards, and none of the created ones is, on both servers.
C23_PerformanceTestCleansOwnBins ==
    TestDone("performance") =>
        /\ \A i \in DOMAIN test.found : \E j \in DOMAIN bins : bins[j] = test.found[i]
        /\ \A i \in DOMAIN test.createdBins :
              \A j \in DOMAIN bins : bins[j]._id # test.createdBins[i]._id

\* The great-circle distances between the DistancePoints on a sphere of radius
\* 6371 km, in metres, from the haversine formula in exact arithmetic
ReferenceDistances ==
    <<<<0, 111195, 277987, 19737099, 8667072, 8687706, 5726546, 15196377, 14262830, 10007543, 20003967>>,
      <<111195, 0, 299388, 19715698, 8750011, 8769334, 5727473, 15130918, 14188023, 10007543, 19892772>>,
      <<277987, 299388, 0, 20015087, 8482417, 8499415, 5448559, 15420009, 14054155, 9729556, 19736877>>,
      <<19737099, 19715698, 20015087, 0, 11532670, 11515672, 14566527, 4595078, 5960932, 10285531, 278209>>,
      <<8667072, 8750011, 8482417, 11532670, 0, 111195, 5572294, 15990971, 10847413, 5480464, 11356299>>,
      <<8687706, 8769334, 8499415, 11515672, 111195, 0, 5503140, 15997430, 10748346, 5369269, 11335533>>,
      <<5726546, 5727473, 5448559, 14566527, 5572294, 5503140, 0, 16994718, 9557636, 4281005, 14288548>>,
      <<15196377, 15130918, 15420009, 4595078, 15990971, 15997430, 16994718, 0, 7830903, 13777051, 4812238>>,
      <<14262830, 14188023, 14054155, 5960932, 10847413, 10748346, 9557636, 7830903, 0, 6037885, 5744822>>,
      <<10007543, 10007543, 9729556, 10285531, 5480464, 5369269, 4281005, 13777051, 6037885, 0, 10007543>>,
      <<20003967, 19892772, 19736877, 278209, 11356299, 11335533, 14288548, 4812238, 5744822, 10007543, 0>>>>

\* C24: for points in range calculateDistance is within 0.1% of the reference
\* great-circle distance on a sphere of radius 6371 km, it is the same with
\* the two points exchanged, and it is 0 for a point and itself.
C24_DistanceMatchesReference ==
    measured.called =>
        LET reference == ReferenceDistances[measured.from][measured.to]
        IN  /\ ~measured.distance.nan
            /\ Abs(measured.distance.v - reference) <= reference \div 1000
            /\ measured.back = measured.distance
            /\ measured.from = measured.to => measured.distance = Num(0)

\* The status code the other server's handler gives for the update request
\* just answered, over the same store
OtherPutCode ==
    IF server = "demo"
    THEN routerPutBin(bins, nextId, last.req.id, [status |-> last.req.status], now).code
    ELSE demoPutBin(bins, nextId, last.req.id, [status |-> last.req.status], now).code

\* C25: the demo server and the router give the same HTTP status code for
\* every update request, whether the id is in the store or not and whether
\* the status is valid or not.
C25_UpdateStatusCodesAgree ==
    last.op = "PUT" => last.code = OtherPutCode

\* The _ids of the bins of a list
IdsOf(list) == {list[i]._id : i \in DOMAIN list}

\* The demo server has just answered 200 to DELETE /api/bins/id
DeleteAnswered(id) ==
    server = "demo" /\ last.op = "DELETE" /\ last.req.id = id /\ last.code = 200

\* The ids the demo server has issued whose bins are no longer in the store:
\* the deleted ones
Deleted == issued \ IdsOf(bins)

\* C26: in the demo server, once DELETE has answered 200 for an id, the id is
\* in no list-all or nearby result from then on, whatever is created, and every
\* later update or delete naming it is answered 404.  Step by step: an id for
\* which DELETE answers 200 is among the deleted ones, and an id among them
\* stays among them, is in no list sent, and is answered 404 when named.
C26_DeletedStaysDeleted ==
    [][server = "demo" =>
        /\ \A id \in DemoIds :
              (last.op = "idle" /\ DeleteAnswered(id)') => id \in Deleted'
        /\ \A id \in Deleted :
              /\ id \in Deleted'
              /\ last'.op \in {"GET", "NEARBY"} => id \notin IdsOf(last'.data)
              /\ (last.op = "idle" /\ last'.op \in {"PUT", "DELETE"} /\ last'.req.id = id)
                    => last'.code = 404]_vars

\* The first sample bin was deleted and a bin created since; an update naming
\* the deleted id is answered 404
C26_Witness ==
    /\ server = "demo"
    /\ <<"1">> \in issued \ IdsOf(bins)
    /\ <<"6">> \in IdsOf(bins)
    /\ last.op = "PUT"
    /\ last.req.id = <<"1">>
    /\ last.code = 404

\* getMobileLocation has been called and this many of the three events (the
\* timer, the success callback, the error callback) have occurred
Occurred(loc) ==
    Cardinality({e \in {"timer", "success", "error"} :
        \/ e = "timer" /\ loc.timeoutId = "fired"
        \/ e = "success" /\ loc.success = "called"
        \/ e = "error" /\ loc.error = "called"})

\* The event of the step from loc to next: the one that had not occurred
EventOf(loc, next) ==
    CHOOSE e \in {"timer", "success", "error"} :
        \/ e = "timer" /\ loc.timeoutId # "fired" /\ next.timeoutId = "fired"
        \/ e = "success" /\ loc.success # "called" /\ next.success = "called"
        \/ e = "error" /\ loc.error # "called" /\ next.error = "called"

\* C27: getMobileLocation settles exactly once.  In every order of the timer
\* firing, the success callback and the error callback, the first event to
\* occur resolves or rejects the promise; a later event calls neither resolve
\* nor reject and logs no error; and the timer is cancelled whenever one of the
\* geolocation callbacks is first.
C27_LocationSettlesOnce ==
    [][(location.pc = "called" /\ location'.pc = "called"
            /\ Occurred(location') = Occurred(location) + 1) =>
        IF Occurred(location) = 0
        THEN /\ Len(location'.settled) = 1
             /\ location'.settled[1].by = EventOf(location, location')
             /\ Len(everLogged') <= Len(everLogged) + 1
             /\ location'.settled[1].by \in {"success", "error"}
                    => location'.timeoutId = "cleared"
        ELSE /\ location'.settled = location.settled
             /\ Len(location'.settled) = 1
             /\ everLogged' = everLogged
             /\ mobileErrors' = mobileErrors
             /\ location'.timeoutId = location.timeoutId]_vars

\* The timer fired first and rejected the promise; both geolocation
\* callbacks were called afterwards
C27_Witness ==
    /\ location.pc = "called"
    /\ Occurred(location) = 3
    /\ Len(location.settled) = 1
    /\ location.settled[1].by = "timer"
    /\ Len(everLogged) = location.logged + 1

\* Every call of loadBinsData has run to its end
AllLoaded == page.view = "find" /\ \A k \in DOMAIN page.loads : page.loads[k].state = "done"

\* The bins the response of a call of loadBinsData holds
Loaded(load) == load.response.data

\* C28: when two calls of loadBinsData overlap, then once both have completed
\* allBins and the bin markers are those of the response to the call started
\* last, in whatever order the responses arrive.
C28_LatestLoadShown ==
    (AllLoaded /\ page.loads[Len(page.loads)].overlaps
        /\ \A k \in DOMAIN page.loads : page.loads[k].response.ok) =>
        /\ page.allBins = Loaded(page.loads[Len(page.loads)])
        /\ page.currentMarkers = Loaded(page.loads[Len(page.loads)])

\* The bins request of the call k of loadBinsData failed
LoadFailed(k) == page.loads[k].state = "done" /\ ~page.loads[k].response.ok

\* The alerts with this message shown for the call k of loadBinsData
AlertsOf(k, message) ==
    {i \in DOMAIN page.alerts : page.alerts[i].of = k /\ page.alerts[i].message = message}

\* C30: when the bins request fails, refreshBins shows the error alert 'Could
\* not refresh data. Server may be offline.' and not the success alert
\* 'Refreshed! Found N bins'.
C30_FailedRefreshReported ==
    page.view = "find" =>
        \A k \in DOMAIN page.loads :
            (page.loads[k].by = "refresh" /\ LoadFailed(k)) =>
                /\ AlertsOf(k, "Could not refresh data. Server may be offline.") # {}
                /\ AlertsOf(k, "Refreshed! Found N bins") = {}

\* The alert with this message has been shown on the add-bin page
AlertShown(message) == \E i \in DOMAIN page.alerts : page.alerts[i].message = message

\* C29: on the add-bin page, whenever geolocation succeeds and the alert
\* 'Current location detected!' is shown, the user-location marker and the
\* temporary selected-location marker have been placed on the map, whatever the
\* order of the map's timer and the geolocation result.
C29_DetectedLocationMarked ==
    (page.view = "add"
        /\ AlertShown("Current location detected! Click elsewhere on the map to choose a different location.")) =>
        /\ page.userMarker # Null
        /\ page.tempMarker # Null

====
